---- MODULE Spec2Model ----
(***************************************************************************)
(* Student dashboard: the record store (StudentModel), its performance     *)
(* scoring and history, and the assistant's query interpreter              *)
(* (AssistantModel), modelled from src/js/model.js.                        *)
(*                                                                         *)
(* Numbers.  JavaScript numbers are modelled as exact decimals held in     *)
(* integers: a value x is held as x*1000 ("milli").  A score 63.6 is       *)
(* 63600, the history threshold 0.001 is 1, the trend threshold 0.05 is    *)
(* 50.  Every string of at most MaxStrLen+1 characters has at most three   *)
(* fraction digits, so the representation is exact for every input the     *)
(* model draws.  Binary floating-point error is not modelled.              *)
(*                                                                         *)
(* Values.  A JavaScript value held in a form field or a stored record is  *)
(* a record [t, s, n]: a string (t = "str", s its characters), a number    *)
(* (t = "num", n in milli) or undefined (t = "undef").                     *)
(***************************************************************************)
EXTENDS Integers, Sequences, FiniteSets, TLC

VARIABLES
    students,      \* StudentModel.students: the in-memory list
    nextId,        \* StudentModel.nextId
    storage,       \* localStorage['students_db'] (parsed)
    undo,          \* localStorage['students_undo_backup'] (parsed) or NoBackup
    lastOp,        \* the model operation that ran last, its target and its outcome
    opCount,       \* how many model operations have run
    scoreArgs,     \* arguments of a calculatePerformanceScore call
    scoreRet,      \* its return value, NoRet before the call
    histArg,       \* argument of getPerformanceTrend / getPerformanceConsistency
    trendRet,      \* return value of getPerformanceTrend, NoRet before the call
    consRet,       \* return value of getPerformanceConsistency
    rawQuery,      \* argument of interpretQuery
    interpreted,   \* its return value, NoRet before the call
    responses,     \* the values getResponse has returned, in order
    inputEl,       \* AssistantView.inputEl.value
    typingTimeout, \* AssistantView.typingTimeout: <<>> or the pending timer
    messages,      \* the bubbles of AssistantView.messagesContainer
    chatHistory,   \* localStorage['assistant_chat_history']
    applied,       \* the dashboard actions applied, in order
    sent,          \* the results handleSend has computed, in order
    view,          \* the StudentView fields the table and the modals use
    activities,    \* localStorage['admin_activity_history'] (parsed)
    timers,        \* the setTimeout callbacks that have not run yet, oldest first
    calls          \* history: the submit and ActivityModel calls made so far, in order

vars == <<students, nextId, storage, undo, lastOp, opCount, scoreArgs, scoreRet,
          histArg, trendRet, consRet, rawQuery, interpreted, responses,
          inputEl, typingTimeout, messages, chatHistory, applied, sent,
          view, activities, timers, calls>>

storeVars == <<students, nextId, storage, undo, lastOp, opCount>>
scoreVars == <<scoreArgs, scoreRet>>
trendVars == <<histArg, trendRet, consRet>>
queryVars == <<rawQuery, interpreted>>
responseVars == <<responses>>
chatVars == <<inputEl, typingTimeout, messages, chatHistory, applied, sent>>
uiVars == <<view, activities, timers, calls>>

\* a return value is held as <<v>>; <<>> means the call has not returned yet
NoRet == <<>>
Ret(v) == <<v>>

\* the sequences over S of length at most n
SeqsUpTo(S, n) == UNION {[1..k -> S] : k \in 0..n}

----------------------------------------------------------------------------
(* JavaScript values and parseFloat *)

Str(s) == [t |-> "str", s |-> s, n |-> 0]
Num(n) == [t |-> "num", s |-> <<>>, n |-> n]
Undef == [t |-> "undef", s |-> <<>>, n |-> 0]

NaN == [nan |-> TRUE, v |-> 0]
Number(v) == [nan |-> FALSE, v |-> v]

DigitChars == <<"0", "1", "2", "3", "4", "5", "6", "7", "8", "9">>

IsDigit(c) == \E i \in 1..10 : DigitChars[i] = c

DigitVal(c) == (CHOOSE i \in 1..10 : DigitChars[i] = c) - 1

RECURSIVE SkipWhitespace(_, _)
SkipWhitespace(s, i) ==
    IF i <= Len(s) /\ s[i] = " " THEN SkipWhitespace(s, i + 1) ELSE i

RECURSIVE ScanDigits(_, _)
ScanDigits(s, i) ==
    IF i <= Len(s) /\ IsDigit(s[i]) THEN ScanDigits(s, i + 1) ELSE i

\* the integer written by the digits s[i..j]
RECURSIVE DigitsValue(_, _, _)
DigitsValue(s, i, j) ==
    IF j < i THEN 0 ELSE DigitsValue(s, i, j - 1) * 10 + DigitVal(s[j])

\* the fraction digits s[i..j] in milli (three digits kept)
FractionMilli(s, i, j) ==
    LET d(k) == IF i + k <= j THEN DigitVal(s[i + k]) ELSE 0
    IN  d(0) * 100 + d(1) * 10 + d(2)

\* parseFloat: leading whitespace, an optional sign, digits, an optional
\* fraction; the longest numeric prefix counts and trailing text is ignored;
\* NaN when there is no digit.  A number parses to itself, undefined to NaN.
parseFloat(v) ==
    IF v.t = "num" THEN Number(v.n)
    ELSE IF v.t = "undef" THEN NaN
    ELSE
      LET s == v.s
          i0 == SkipWhitespace(s, 1)
          signed == i0 <= Len(s) /\ s[i0] \in {"-", "+"}
          neg == signed /\ s[i0] = "-"
          i1 == IF signed THEN i0 + 1 ELSE i0
          intEnd == ScanDigits(s, i1)
          hasDot == intEnd <= Len(s) /\ s[intEnd] = "."
          fracEnd == IF hasDot THEN ScanDigits(s, intEnd + 1) ELSE intEnd
          nInt == intEnd - i1
          nFrac == IF hasDot THEN fracEnd - (intEnd + 1) ELSE 0
          mag == DigitsValue(s, i1, intEnd - 1) * 1000
                   + (IF nFrac > 0 THEN FractionMilli(s, intEnd + 1, fracEnd - 1) ELSE 0)
      IN  IF nInt + nFrac = 0 THEN NaN
          ELSE Number(IF neg THEN 0 - mag ELSE mag)

----------------------------------------------------------------------------
(* StudentModel.calculatePerformanceScore *)

\* Math.round(x * 100) / 100 for x held in units of 1/10000: the nearest
\* hundredth, a tie going up (towards +infinity); the result is in milli
MathRound2(x) == ((x + 50) \div 100) * 10

\* weights 10*0.5, 0.3 and 0.2 are applied as 10*5, 3 and 2 tenths, which
\* takes milli inputs to a sum in units of 1/10000
calculatePerformanceScore_Truncates(gpa, attendance, assignmentScore) ==
    LET g == parseFloat(gpa)
        a == parseFloat(attendance)
        as == parseFloat(assignmentScore)
        score == (IF g.nan THEN 0 ELSE g.v) * 10 * 5
                   + (IF a.nan THEN 0 ELSE a.v) * 3
                   + (IF as.nan THEN 0 ELSE as.v) * 2
    IN  (score \div 100) * 10

calculatePerformanceScore_SwapsWeights(gpa, attendance, assignmentScore) ==
    LET g == parseFloat(gpa)
        a == parseFloat(attendance)
        as == parseFloat(assignmentScore)
        score == (IF g.nan THEN 0 ELSE g.v) * 10 * 5
                   + (IF a.nan THEN 0 ELSE a.v) * 2
                   + (IF as.nan THEN 0 ELSE as.v) * 3
    IN  MathRound2(score)

calculatePerformanceScore_RejectsPartial(gpa, attendance, assignmentScore) ==
    LET g == parseFloat(gpa)
        a == parseFloat(attendance)
        as == parseFloat(assignmentScore)
        score == g.v * 10 * 5 + a.v * 3 + as.v * 2
    IN  IF g.nan \/ a.nan \/ as.nan THEN 0 ELSE MathRound2(score)

calculatePerformanceScore(gpa, attendance, assignmentScore) ==
    LET g == parseFloat(gpa)
        a == parseFloat(attendance)
        as == parseFloat(assignmentScore)
        score == (IF g.nan THEN 0 ELSE g.v) * 10 * 5
                   + (IF a.nan THEN 0 ELSE a.v) * 3
                   + (IF as.nan THEN 0 ELSE as.v) * 2
    IN  MathRound2(score)

----------------------------------------------------------------------------
(* StudentModel.getPerformanceTrend and getPerformanceConsistency *)

\* Array.prototype.slice(-n): the last n elements, all of them when fewer
SliceLast(arr, n) ==
    IF Len(arr) <= n THEN arr ELSE SubSeq(arr, Len(arr) - n + 1, Len(arr))

\* 0.05 in milli
TrendThreshold == 50

getPerformanceTrend_WholeHistory(performanceHistory) ==
    LET arr == performanceHistory
    IN  IF Len(arr) < 2 THEN "stable"
        ELSE LET first == arr[1]
                 last == arr[Len(arr)]
                 diff == last - first
             IN  IF diff > TrendThreshold THEN "up"
                 ELSE IF diff < 0 - TrendThreshold THEN "down"
                 ELSE "stable"

getPerformanceTrend(performanceHistory) ==
    LET arr == SliceLast(performanceHistory, 3)
    IN  IF Len(arr) < 2 THEN "stable"
        ELSE LET first == arr[1]
                 last == arr[Len(arr)]
                 diff == last - first
             IN  IF diff > TrendThreshold THEN "up"
                 ELSE IF diff < 0 - TrendThreshold THEN "down"
                 ELSE "stable"

\* AssistantModel._localTrend, the fallback used when the student model has
\* no getPerformanceTrend
localTrend(history) ==
    LET arr == SliceLast(history, 3)
    IN  IF Len(arr) < 2 THEN "stable"
        ELSE LET diff == arr[Len(arr)] - arr[1]
             IN  IF diff > TrendThreshold THEN "up"
                 ELSE IF diff < 0 - TrendThreshold THEN "down"
                 ELSE "stable"

RECURSIVE SumSeq(_)
SumSeq(arr) == IF arr = <<>> THEN 0 ELSE arr[1] + SumSeq(Tail(arr))

\* sum over v of (n*v - total)^2, which is n^2 times the sum of the squared
\* deviations from the mean total/n
RECURSIVE SumSquaredDeviations(_, _, _)
SumSquaredDeviations(arr, n, total) ==
    IF arr = <<>> THEN 0
    ELSE (n * arr[1] - total) * (n * arr[1] - total)
           + SumSquaredDeviations(Tail(arr), n, total)

\* 2.0 in milli squared
VarianceThreshold == 2000000

\* variance <= 2 with variance = sum((v - mean)^2) / n and mean = total / n,
\* both sides multiplied by n^3 to stay in integers
getPerformanceConsistency_SampleVariance(performanceHistory) ==
    LET arr == SliceLast(performanceHistory, 5)
        n == Len(arr)
    IN  IF n < 2 THEN "high"
        ELSE IF SumSquaredDeviations(arr, n, SumSeq(arr)) <= VarianceThreshold * n * n * (n - 1)
             THEN "high" ELSE "low"

getPerformanceConsistency(performanceHistory) ==
    LET arr == SliceLast(performanceHistory, 5)
        n == Len(arr)
    IN  IF n < 2 THEN "high"
        ELSE IF SumSquaredDeviations(arr, n, SumSeq(arr)) <= VarianceThreshold * n * n * n
             THEN "high" ELSE "low"

----------------------------------------------------------------------------
(* Student ids, emails and validation (Utils) *)

\* new Date().getFullYear(), as text
ThisYear == "2026"

RECURSIVE DigitsOf(_)
DigitsOf(n) ==
    IF n < 10 THEN <<DigitChars[n + 1]>>
    ELSE DigitsOf(n \div 10) \o <<DigitChars[(n % 10) + 1]>>

\* String(index).padStart(3, '0')
RECURSIVE PadStart3(_)
PadStart3(d) == IF Len(d) >= 3 THEN d ELSE PadStart3(<<"0">> \o d)

\* Utils.generateStudentID: `STU-${year}-${number}`, held as its three parts
generateStudentID(index) == <<"STU", ThisYear, PadStart3(DigitsOf(index))>>

\* parseInt(text, 10) of an unsigned digit run: NaN when it has no leading digit
parseIntDigits(d) ==
    LET e == ScanDigits(d, 1)
    IN  IF e = 1 THEN NaN ELSE Number(DigitsValue(d, 1, e - 1))

\* parseInt(value): the integer part of the numeric prefix, in milli
parseInt(v) ==
    IF v.t = "undef" THEN NaN
    ELSE IF v.t = "num" THEN
        Number((IF v.n < 0 THEN 0 - (((0 - v.n) \div 1000) * 1000) ELSE (v.n \div 1000) * 1000))
    ELSE
      LET s == v.s
          i0 == SkipWhitespace(s, 1)
          signed == i0 <= Len(s) /\ s[i0] \in {"-", "+"}
          neg == signed /\ s[i0] = "-"
          i1 == IF signed THEN i0 + 1 ELSE i0
          intEnd == ScanDigits(s, i1)
          mag == DigitsValue(s, i1, intEnd - 1) * 1000
      IN  IF intEnd = i1 THEN NaN
          ELSE Number(IF neg THEN 0 - mag ELSE mag)

UpperChars == <<"A", "B", "C", "D", "E", "F", "G", "H", "I", "J", "K", "L", "M",
               "N", "O", "P", "Q", "R", "S", "T", "U", "V", "W", "X", "Y", "Z">>
LowerChars == <<"a", "b", "c", "d", "e", "f", "g", "h", "i", "j", "k", "l", "m",
               "n", "o", "p", "q", "r", "s", "t", "u", "v", "w", "x", "y", "z">>

\* String.prototype.toLowerCase, one character at a time
LowerChar(c) ==
    IF \E i \in 1..Len(UpperChars) : UpperChars[i] = c
    THEN LowerChars[CHOOSE i \in 1..Len(UpperChars) : UpperChars[i] = c]
    ELSE c

toLowerCase(s) == [i \in 1..Len(s) |-> LowerChar(s[i])]

\* Utils.isValidEmail: /^[^\s@]+@[^\s@]+\.[^\s@]+$/
isValidEmail(email) ==
    /\ \A i \in 1..Len(email) : email[i] # " "
    /\ Cardinality({i \in 1..Len(email) : email[i] = "@"}) = 1
    /\ LET at == CHOOSE i \in 1..Len(email) : email[i] = "@"
       IN  /\ at > 1
           /\ \E dot \in (at + 2)..(Len(email) - 1) : email[dot] = "."

\* Utils.isValidGPA: 0 <= parseFloat(gpa) <= 4.0
isValidGPA(gpa) ==
    LET num == parseFloat(gpa) IN ~num.nan /\ num.v >= 0 /\ num.v <= 4000

\* Utils.isValidAttendance: 0 <= parseInt(attendance) <= 100
isValidAttendance(attendance) ==
    LET num == parseInt(attendance) IN ~num.nan /\ num.v >= 0 /\ num.v <= 100000

\* Utils.isValidAssignmentScore: 0 <= parseFloat(score) <= 100
isValidAssignmentScore(score) ==
    LET num == parseFloat(score) IN ~num.nan /\ num.v >= 0 /\ num.v <= 100000

----------------------------------------------------------------------------
(* StudentModel: the record store *)

(* A student is a record [id, firstName, email, gpa, attendance,            *)
(* assignmentScore, performanceHistory].  email and firstName are character *)
(* sequences; performanceHistory is a sequence of scores in milli, and a    *)
(* record without the field is held with the empty sequence: every read of  *)
(* the field (lines 23, 103, 200) treats a missing array and an empty one   *)
(* alike.  The remaining form fields (lastName, dob, phone, address, ...)   *)
(* are not held; validateStudent's checks on them are taken to pass.        *)

\* validateStudent, on the fields held
validateStudent(data) ==
    /\ data.firstName # <<>>
    /\ \E i \in 1..Len(data.firstName) : data.firstName[i] # " "
    /\ isValidEmail(data.email)
    /\ isValidGPA(data.gpa)
    /\ isValidAttendance(data.attendance)
    /\ isValidAssignmentScore(
          IF data.assignmentScore.t = "undef" \/ data.assignmentScore = Str(<<>>)
          THEN Undef ELSE data.assignmentScore)

NoId == <<>>

NoBackup == <<>>

InitOp == [op |-> "constructor", id |-> NoId, result |-> "ok"]

\* emailExists(email, excludeId); excludeId = NoId when not given
emailExists(list, email, excludeId) ==
    \E i \in 1..Len(list) :
        /\ ~(excludeId # NoId /\ list[i].id = excludeId)
        /\ list[i].email # <<>>
        /\ toLowerCase(list[i].email) = toLowerCase(email)

\* Array.prototype.findIndex(s => s.id === id): first match, 0 when none
findIndex(list, id) ==
    IF \E i \in 1..Len(list) : list[i].id = id
    THEN CHOOSE i \in 1..Len(list) :
            list[i].id = id /\ \A j \in 1..(i - 1) : list[j].id # id
    ELSE 0

\* _getNextAvailableId: 1 + the largest number ending an id, 1 for an empty list
getNextAvailableId(list) ==
    IF Len(list) = 0 THEN 1
    ELSE LET nums == {parseIntDigits(list[i].id[Len(list[i].id)]).v :
                        i \in {j \in 1..Len(list) :
                                 /\ list[j].id # NoId
                                 /\ ~parseIntDigits(list[j].id[Len(list[j].id)]).nan}}
             max == IF nums = {} THEN 0
                    ELSE CHOOSE m \in nums : \A k \in nums : k <= m
         IN  (IF max > 0 THEN max ELSE 0) + 1

\* _migratePerformanceHistory, per student
migrateStudent(s) ==
    IF Len(s.performanceHistory) = 0
    THEN [s EXCEPT !.performanceHistory =
            <<calculatePerformanceScore(s.gpa, s.attendance, s.assignmentScore)>>]
    ELSE [s EXCEPT !.performanceHistory = SliceLast(s.performanceHistory, 5)]

migratePerformanceHistory(list) == [i \in 1..Len(list) |-> migrateStudent(list[i])]

\* `changed` of _migratePerformanceHistory: some history was missing
migrationChanged(list) == \E i \in 1..Len(list) : Len(list[i].performanceHistory) = 0

\* lines 199-207 of updateStudent: the history after a recomputed score
Abs(x) == IF x < 0 THEN 0 - x ELSE x

updatedHistory_AlwaysAppends(prevHistory, newScore) ==
    SliceLast(Append(prevHistory, newScore), 5)

updatedHistory_DropsNewest(prevHistory, newScore) ==
    IF Len(prevHistory) = 0 \/ Abs(newScore - prevHistory[Len(prevHistory)]) > 1
    THEN LET pushed == Append(prevHistory, newScore)
         IN  IF Len(pushed) <= 5 THEN pushed ELSE SubSeq(pushed, 1, 5)
    ELSE SliceLast(prevHistory, 5)

updatedHistory_Unbounded(prevHistory, newScore) ==
    IF Len(prevHistory) = 0 \/ Abs(newScore - prevHistory[Len(prevHistory)]) > 1
    THEN Append(prevHistory, newScore)
    ELSE prevHistory

updatedHistory(prevHistory, newScore) ==
    IF Len(prevHistory) = 0 \/ Abs(newScore - prevHistory[Len(prevHistory)]) > 1
    THEN SliceLast(Append(prevHistory, newScore), 5)
    ELSE SliceLast(prevHistory, 5)

\* { ...this.students[index], ...updates }
mergeUpdates(student, updates) ==
    [f \in DOMAIN student |-> IF f \in DOMAIN updates THEN updates[f] ELSE student[f]]

\* localStorage.setItem(undoKey, { students, nextId, action, deletedId })
saveUndoBackup(action, deletedId) ==
    <<[students |-> students, nextId |-> nextId, action |-> action, deletedId |-> deletedId]>>

Op(op, id, result) == [op |-> op, id |-> id, result |-> result]

\* an operation that throws or returns false before changing anything
Rejected(op, id, result) ==
    /\ lastOp' = Op(op, id, result)
    /\ UNCHANGED <<students, nextId, storage, undo>>

MaxStudents == 2
MaxId == 3

\* an add that does not look for the email among the stored students
addStudent_NoEmailCheck(studentData) ==
    IF ~validateStudent(studentData)
    THEN Rejected("addStudent", NoId, "Invalid student data")
    ELSE
      LET initialScore == calculatePerformanceScore(studentData.gpa,
                              studentData.attendance, studentData.assignmentScore)
          student == [id |-> generateStudentID(nextId),
                      firstName |-> studentData.firstName,
                      email |-> studentData.email,
                      gpa |-> studentData.gpa,
                      attendance |-> studentData.attendance,
                      assignmentScore |-> studentData.assignmentScore,
                      performanceHistory |-> <<initialScore>>]
      IN  /\ Len(students) < MaxStudents
          /\ nextId <= MaxId
          /\ students' = Append(students, student)
          /\ nextId' = nextId + 1
          /\ storage' = students'
          /\ UNCHANGED undo
          /\ lastOp' = Op("addStudent", student.id, "ok")

addStudent(studentData) ==
    IF ~validateStudent(studentData)
    THEN Rejected("addStudent", NoId, "Invalid student data")
    ELSE IF emailExists(students, studentData.email, NoId)
    THEN Rejected("addStudent", NoId, "Email already registered")
    ELSE
      LET initialScore == calculatePerformanceScore(studentData.gpa,
                              studentData.attendance, studentData.assignmentScore)
          student == [id |-> generateStudentID(nextId),
                      firstName |-> studentData.firstName,
                      email |-> studentData.email,
                      gpa |-> studentData.gpa,
                      attendance |-> studentData.attendance,
                      assignmentScore |-> studentData.assignmentScore,
                      performanceHistory |-> <<initialScore>>]
      IN  /\ Len(students) < MaxStudents
          /\ nextId <= MaxId
          /\ students' = Append(students, student)
          /\ nextId' = nextId + 1
          /\ storage' = students'
          /\ UNCHANGED undo
          /\ lastOp' = Op("addStudent", student.id, "ok")

updateStudent(id, updates) ==
    LET index == findIndex(students, id)
    IN  IF index = 0
        THEN Rejected("updateStudent", id, "Student not found")
        ELSE IF /\ "email" \in DOMAIN updates
                /\ updates.email # <<>>
                /\ updates.email # students[index].email
                /\ emailExists(students, updates.email, id)
        THEN Rejected("updateStudent", id, "Email already registered")
        ELSE
          LET merged == mergeUpdates(students[index], updates)
              newScore == calculatePerformanceScore(merged.gpa, merged.attendance,
                                                    merged.assignmentScore)
              result == [merged EXCEPT !.performanceHistory =
                            updatedHistory(merged.performanceHistory, newScore)]
          IN  /\ students' = [students EXCEPT ![index] = result]
              /\ storage' = students'
              /\ UNCHANGED <<nextId, undo>>
              /\ lastOp' = Op("updateStudent", id, "ok")

\* Array.prototype.splice(index, 1)
RemoveAt(list, index) ==
    [i \in 1..(Len(list) - 1) |-> IF i < index THEN list[i] ELSE list[i + 1]]

\* a delete that takes its backup before it looks for the student
deleteStudent_BackupBeforeLookup(id) ==
    LET index == findIndex(students, id)
    IN  IF index = 0
        THEN /\ undo' = saveUndoBackup("delete", id)
             /\ lastOp' = Op("deleteStudent", id, "Student not found")
             /\ UNCHANGED <<students, nextId, storage>>
        ELSE /\ undo' = saveUndoBackup("delete", id)
             /\ students' = RemoveAt(students, index)
             /\ storage' = students'
             /\ UNCHANGED nextId
             /\ lastOp' = Op("deleteStudent", id, "ok")

\* a delete that takes its backup after the removal
deleteStudent_BackupAfterRemoval(id) ==
    LET index == findIndex(students, id)
    IN  IF index = 0
        THEN Rejected("deleteStudent", id, "Student not found")
        ELSE /\ students' = RemoveAt(students, index)
             /\ undo' = <<[students |-> students', nextId |-> nextId,
                           action |-> "delete", deletedId |-> id]>>
             /\ storage' = students'
             /\ UNCHANGED nextId
             /\ lastOp' = Op("deleteStudent", id, "ok")

deleteStudent(id) ==
    LET index == findIndex(students, id)
    IN  IF index = 0
        THEN Rejected("deleteStudent", id, "Student not found")
        ELSE /\ undo' = saveUndoBackup("delete", id)
             /\ students' = RemoveAt(students, index)
             /\ storage' = students'
             /\ UNCHANGED nextId
             /\ lastOp' = Op("deleteStudent", id, "ok")

clearAllData ==
    /\ undo' = saveUndoBackup("clear", NoId)
    /\ students' = <<>>
    /\ nextId' = 1
    /\ storage' = students'
    /\ lastOp' = Op("clearAllData", NoId, "ok")

\* an undo that brings back the list but leaves the counter as it is
restoreUndoBackup_KeepsNextId ==
    IF undo = NoBackup
    THEN Rejected("restoreUndoBackup", NoId, "false")
    ELSE /\ students' = undo[1].students
         /\ UNCHANGED nextId
         /\ storage' = students'
         /\ undo' = NoBackup
         /\ lastOp' = Op("restoreUndoBackup", NoId, "true")

\* an undo that keeps the students added since the backup was taken
restoreUndoBackup_KeepsAdded ==
    IF undo = NoBackup
    THEN Rejected("restoreUndoBackup", NoId, "false")
    ELSE /\ students' = undo[1].students \o
                SelectSeq(students, LAMBDA s : findIndex(undo[1].students, s.id) = 0)
         /\ nextId' = undo[1].nextId
         /\ storage' = students'
         /\ undo' = NoBackup
         /\ lastOp' = Op("restoreUndoBackup", NoId, "true")

restoreUndoBackup ==
    IF undo = NoBackup
    THEN Rejected("restoreUndoBackup", NoId, "false")
    ELSE /\ students' = undo[1].students
         \* every backup saveUndoBackup writes carries nextId
         /\ nextId' = undo[1].nextId
         /\ storage' = students'
         /\ undo' = NoBackup
         /\ lastOp' = Op("restoreUndoBackup", NoId, "true")

\* an import that saves the list before it is migrated
importFromJSON_SavesBeforeMigration(data) ==
    IF ~data.isArray
    THEN Rejected("importFromJSON", NoId, "false")
    ELSE /\ students' = migratePerformanceHistory(data.students)
         /\ nextId' = getNextAvailableId(students')
         /\ storage' = data.students
         /\ UNCHANGED undo
         /\ lastOp' = Op("importFromJSON", NoId, "true")

\* data = [isArray, students]: isArray is Array.isArray(data.students).  The
\* entries of an imported array are student records (an export file).
importFromJSON(data) ==
    IF ~data.isArray
    THEN Rejected("importFromJSON", NoId, "false")
    ELSE /\ students' = migratePerformanceHistory(data.students)
         /\ nextId' = getNextAvailableId(students')
         /\ storage' = students'
         /\ UNCHANGED undo
         /\ lastOp' = Op("importFromJSON", NoId, "true")

\* a page reload: new StudentModel() over what localStorage holds
constructor ==
    /\ students' = migratePerformanceHistory(storage)
    /\ storage' = IF migrationChanged(storage) THEN students' ELSE storage
    /\ nextId' = getNextAvailableId(students')
    /\ UNCHANGED undo
    /\ lastOp' = InitOp

----------------------------------------------------------------------------
(* AssistantModel.interpretQuery *)

(* A text is a sequence of characters.  The rules' regular expressions are  *)
(* matched on the text cut into items: maximal runs of word characters      *)
(* (\w) and single other characters, each with the number of spaces before  *)
(* it.  \b holds at both ends of a word item.  An alternative of a regular  *)
(* expression is a sequence of elements [sep, kind, w]: kind says what the  *)
(* item must be ("word": the word w; "anyword": (\w+); "digits": (\d+)      *)
(* filling the item; "digitsPrefix": (\d+) starting it; "punct": the        *)
(* character w), sep how it follows the element before ("b": \b at the      *)
(* start; "sp1": one literal space; "sp": \s+; "osp": \s*; "gap": .*\b).    *)

IsSpace(c) == c = " "

IsWordChar(c) ==
    \/ IsDigit(c)
    \/ c = "_"
    \/ \E i \in 1..Len(LowerChars) : LowerChars[i] = c \/ UpperChars[i] = c

RECURSIVE TrimStart(_)
TrimStart(s) == IF s # <<>> /\ IsSpace(Head(s)) THEN TrimStart(Tail(s)) ELSE s

RECURSIVE TrimEnd(_)
TrimEnd(s) ==
    IF s # <<>> /\ IsSpace(s[Len(s)]) THEN TrimEnd(SubSeq(s, 1, Len(s) - 1)) ELSE s

\* no trimming at all
Trim_Identity(s) == s

\* String.prototype.trim
Trim(s) == TrimEnd(TrimStart(s))

RECURSIVE ScanWord(_, _)
ScanWord(s, i) ==
    IF i <= Len(s) /\ IsWordChar(s[i]) THEN ScanWord(s, i + 1) ELSE i

RECURSIVE TokenizeFrom(_, _, _, _)
TokenizeFrom(s, i, gap, acc) ==
    IF i > Len(s) THEN acc
    ELSE IF IsSpace(s[i]) THEN TokenizeFrom(s, i + 1, gap + 1, acc)
    ELSE IF IsWordChar(s[i])
         THEN LET e == ScanWord(s, i)
              IN  TokenizeFrom(s, e, 0,
                     Append(acc, [t |-> SubSeq(s, i, e - 1), word |-> TRUE, gap |-> gap]))
         ELSE TokenizeFrom(s, i + 1, 0,
                     Append(acc, [t |-> <<s[i]>>, word |-> FALSE, gap |-> gap]))

Tokenize(s) == TokenizeFrom(s, 1, 0, <<>>)

\* the item fits the element
ElemOk(e, item) ==
    CASE e.kind = "word" -> item.word /\ item.t = e.w
      [] e.kind = "anyword" -> item.word
      [] e.kind = "digits" -> item.word /\ \A k \in 1..Len(item.t) : IsDigit(item.t[k])
      [] e.kind = "digitsPrefix" -> item.word /\ IsDigit(item.t[1])
      [] e.kind = "punct" -> ~item.word /\ item.t = e.w

\* the items at which an element may match when the one before it matched at i
Candidates(e, items, i) ==
    CASE e.sep = "sp1" -> {j \in {i + 1} : j <= Len(items) /\ items[j].gap = 1}
      [] e.sep = "sp" -> {j \in {i + 1} : j <= Len(items) /\ items[j].gap >= 1}
      [] e.sep = "osp" -> {j \in {i + 1} : j <= Len(items)}
      [] e.sep = "gap" -> (i + 1)..Len(items)
      [] e.sep = "b" -> 1..Len(items)

RECURSIVE MatchFrom(_, _, _, _)
MatchFrom(alt, k, items, i) ==
    IF k > Len(alt) THEN TRUE
    ELSE \E j \in Candidates(alt[k], items, i) :
            ElemOk(alt[k], items[j]) /\ MatchFrom(alt, k + 1, items, j)

\* RegExp.prototype.test on the text whose items are given
Test(regex, items) == \E alt \in regex : MatchFrom(alt, 1, items, 0)

\* /\bhow many\b.*\b(at )?risk\b|\bat risk\b|\bstudents at risk\b|\brisk count\b/
AtRiskRegex ==
    {<<[sep |-> "b", kind |-> "word", w |-> <<"h", "o", "w">>],
       [sep |-> "sp1", kind |-> "word", w |-> <<"m", "a", "n", "y">>],
       [sep |-> "gap", kind |-> "word", w |-> <<"a", "t">>],
       [sep |-> "sp1", kind |-> "word", w |-> <<"r", "i", "s", "k">>]>>,
     <<[sep |-> "b", kind |-> "word", w |-> <<"h", "o", "w">>],
       [sep |-> "sp1", kind |-> "word", w |-> <<"m", "a", "n", "y">>],
       [sep |-> "gap", kind |-> "word", w |-> <<"r", "i", "s", "k">>]>>,
     <<[sep |-> "b", kind |-> "word", w |-> <<"a", "t">>],
       [sep |-> "sp1", kind |-> "word", w |-> <<"r", "i", "s", "k">>]>>,
     <<[sep |-> "b", kind |-> "word", w |-> <<"s", "t", "u", "d", "e", "n", "t", "s">>],
       [sep |-> "sp1", kind |-> "word", w |-> <<"a", "t">>],
       [sep |-> "sp1", kind |-> "word", w |-> <<"r", "i", "s", "k">>]>>,
     <<[sep |-> "b", kind |-> "word", w |-> <<"r", "i", "s", "k">>],
       [sep |-> "sp1", kind |-> "word", w |-> <<"c", "o", "u", "n", "t">>]>>}

\* /\bshow\b.*\bengineering\b|\bengineering\s+students\b|\b(computer\s+science|business|arts|science)\s+students\b/
DepartmentRegex ==
    {<<[sep |-> "b", kind |-> "word", w |-> <<"s", "h", "o", "w">>],
       [sep |-> "gap", kind |-> "word", w |-> <<"e", "n", "g", "i", "n", "e", "e", "r", "i", "n", "g">>]>>,
     <<[sep |-> "b", kind |-> "word", w |-> <<"e", "n", "g", "i", "n", "e", "e", "r", "i", "n", "g">>],
       [sep |-> "sp", kind |-> "word", w |-> <<"s", "t", "u", "d", "e", "n", "t", "s">>]>>,
     <<[sep |-> "b", kind |-> "word", w |-> <<"c", "o", "m", "p", "u", "t", "e", "r">>],
       [sep |-> "sp", kind |-> "word", w |-> <<"s", "c", "i", "e", "n", "c", "e">>],
       [sep |-> "sp", kind |-> "word", w |-> <<"s", "t", "u", "d", "e", "n", "t", "s">>]>>,
     <<[sep |-> "b", kind |-> "word", w |-> <<"b", "u", "s", "i", "n", "e", "s", "s">>],
       [sep |-> "sp", kind |-> "word", w |-> <<"s", "t", "u", "d", "e", "n", "t", "s">>]>>,
     <<[sep |-> "b", kind |-> "word", w |-> <<"a", "r", "t", "s">>],
       [sep |-> "sp", kind |-> "word", w |-> <<"s", "t", "u", "d", "e", "n", "t", "s">>]>>,
     <<[sep |-> "b", kind |-> "word", w |-> <<"s", "c", "i", "e", "n", "c", "e">>],
       [sep |-> "sp", kind |-> "word", w |-> <<"s", "t", "u", "d", "e", "n", "t", "s">>]>>}

\* /\bwho\s+has\s+(the\s+)?highest\s+gpa\b|\bhighest\s+gpa\b|\btop\s+gpa\b|\bbest\s+gpa\b/
HighestGpaRegex ==
    {<<[sep |-> "b", kind |-> "word", w |-> <<"w", "h", "o">>],
       [sep |-> "sp", kind |-> "word", w |-> <<"h", "a", "s">>],
       [sep |-> "sp", kind |-> "word", w |-> <<"t", "h", "e">>],
       [sep |-> "sp", kind |-> "word", w |-> <<"h", "i", "g", "h", "e", "s", "t">>],
       [sep |-> "sp", kind |-> "word", w |-> <<"g", "p", "a">>]>>,
     <<[sep |-> "b", kind |-> "word", w |-> <<"w", "h", "o">>],
       [sep |-> "sp", kind |-> "word", w |-> <<"h", "a", "s">>],
       [sep |-> "sp", kind |-> "word", w |-> <<"h", "i", "g", "h", "e", "s", "t">>],
       [sep |-> "sp", kind |-> "word", w |-> <<"g", "p", "a">>]>>,
     <<[sep |-> "b", kind |-> "word", w |-> <<"h", "i", "g", "h", "e", "s", "t">>],
       [sep |-> "sp", kind |-> "word", w |-> <<"g", "p", "a">>]>>,
     <<[sep |-> "b", kind |-> "word", w |-> <<"t", "o", "p">>],
       [sep |-> "sp", kind |-> "word", w |-> <<"g", "p", "a">>]>>,
     <<[sep |-> "b", kind |-> "word", w |-> <<"b", "e", "s", "t">>],
       [sep |-> "sp", kind |-> "word", w |-> <<"g", "p", "a">>]>>}

\* /\battendance\s+below\s+(\d+)\s*%?|\bbelow\s+(\d+)\s*%\s*attendance\b|\blow\s+attendance\b/
LowAttendanceRegex ==
    {<<[sep |-> "b", kind |-> "word", w |-> <<"a", "t", "t", "e", "n", "d", "a", "n", "c", "e">>],
       [sep |-> "sp", kind |-> "word", w |-> <<"b", "e", "l", "o", "w">>],
       [sep |-> "sp", kind |-> "digitsPrefix", w |-> <<>>]>>,
     <<[sep |-> "b", kind |-> "word", w |-> <<"b", "e", "l", "o", "w">>],
       [sep |-> "sp", kind |-> "digits", w |-> <<>>],
       [sep |-> "osp", kind |-> "punct", w |-> <<"%">>],
       [sep |-> "osp", kind |-> "word", w |-> <<"a", "t", "t", "e", "n", "d", "a", "n", "c", "e">>]>>,
     <<[sep |-> "b", kind |-> "word", w |-> <<"l", "o", "w">>],
       [sep |-> "sp", kind |-> "word", w |-> <<"a", "t", "t", "e", "n", "d", "a", "n", "c", "e">>]>>}

\* /\boverall\s+performance\s+summary\b|\bperformance\s+summary\b|\bsummary\b/
SummaryRegex ==
    {<<[sep |-> "b", kind |-> "word", w |-> <<"o", "v", "e", "r", "a", "l", "l">>],
       [sep |-> "sp", kind |-> "word", w |-> <<"p", "e", "r", "f", "o", "r", "m", "a", "n", "c", "e">>],
       [sep |-> "sp", kind |-> "word", w |-> <<"s", "u", "m", "m", "a", "r", "y">>]>>,
     <<[sep |-> "b", kind |-> "word", w |-> <<"p", "e", "r", "f", "o", "r", "m", "a", "n", "c", "e">>],
       [sep |-> "sp", kind |-> "word", w |-> <<"s", "u", "m", "m", "a", "r", "y">>]>>,
     <<[sep |-> "b", kind |-> "word", w |-> <<"s", "u", "m", "m", "a", "r", "y">>]>>}

\* /\bplacement\s+ready\b|\bplacement\s+students\b/
PlacementRegex ==
    {<<[sep |-> "b", kind |-> "word", w |-> <<"p", "l", "a", "c", "e", "m", "e", "n", "t">>],
       [sep |-> "sp", kind |-> "word", w |-> <<"r", "e", "a", "d", "y">>]>>,
     <<[sep |-> "b", kind |-> "word", w |-> <<"p", "l", "a", "c", "e", "m", "e", "n", "t">>],
       [sep |-> "sp", kind |-> "word", w |-> <<"s", "t", "u", "d", "e", "n", "t", "s">>]>>}

\* /\bis\s+(\w+)\s+improving\b|\b(\w+)\s+improvement\b|\bhow\s+is\s+(\w+)\s+doing\b/
TrendRegex ==
    {<<[sep |-> "b", kind |-> "word", w |-> <<"i", "s">>],
       [sep |-> "sp", kind |-> "anyword", w |-> <<>>],
       [sep |-> "sp", kind |-> "word", w |-> <<"i", "m", "p", "r", "o", "v", "i", "n", "g">>]>>,
     <<[sep |-> "b", kind |-> "anyword", w |-> <<>>],
       [sep |-> "sp", kind |-> "word", w |-> <<"i", "m", "p", "r", "o", "v", "e", "m", "e", "n", "t">>]>>,
     <<[sep |-> "b", kind |-> "word", w |-> <<"h", "o", "w">>],
       [sep |-> "sp", kind |-> "word", w |-> <<"i", "s">>],
       [sep |-> "sp", kind |-> "anyword", w |-> <<>>],
       [sep |-> "sp", kind |-> "word", w |-> <<"d", "o", "i", "n", "g">>]>>}

\* /\bdepartment\s+comparison\b|\bcompare\s+departments\b|\bwhich\s+department\s+has\s+most\b/
ComparisonRegex ==
    {<<[sep |-> "b", kind |-> "word", w |-> <<"d", "e", "p", "a", "r", "t", "m", "e", "n", "t">>],
       [sep |-> "sp", kind |-> "word", w |-> <<"c", "o", "m", "p", "a", "r", "i", "s", "o", "n">>]>>,
     <<[sep |-> "b", kind |-> "word", w |-> <<"c", "o", "m", "p", "a", "r", "e">>],
       [sep |-> "sp", kind |-> "word", w |-> <<"d", "e", "p", "a", "r", "t", "m", "e", "n", "t", "s">>]>>,
     <<[sep |-> "b", kind |-> "word", w |-> <<"w", "h", "i", "c", "h">>],
       [sep |-> "sp", kind |-> "word", w |-> <<"d", "e", "p", "a", "r", "t", "m", "e", "n", "t">>],
       [sep |-> "sp", kind |-> "word", w |-> <<"h", "a", "s">>],
       [sep |-> "sp", kind |-> "word", w |-> <<"m", "o", "s", "t">>]>>}

\* /\balerts?\b|\battention\b|\bneed\s+mentor\b/
AlertsRegex ==
    {<<[sep |-> "b", kind |-> "word", w |-> <<"a", "l", "e", "r", "t">>]>>,
     <<[sep |-> "b", kind |-> "word", w |-> <<"a", "l", "e", "r", "t", "s">>]>>,
     <<[sep |-> "b", kind |-> "word", w |-> <<"a", "t", "t", "e", "n", "t", "i", "o", "n">>]>>,
     <<[sep |-> "b", kind |-> "word", w |-> <<"n", "e", "e", "d">>],
       [sep |-> "sp", kind |-> "word", w |-> <<"m", "e", "n", "t", "o", "r">>]>>}

\* String.prototype.includes
Includes(s, key) ==
    \E i \in 1..(Len(s) - Len(key) + 1) : SubSeq(s, i, i + Len(key) - 1) = key

\* the keyword table of _extractDepartment, in its order
DepartmentMap ==
    <<[key |-> <<"e", "n", "g", "i", "n", "e", "e", "r", "i", "n", "g">>, value |-> <<"E", "n", "g", "i", "n", "e", "e", "r", "i", "n", "g">>],
      [key |-> <<"c", "o", "m", "p", "u", "t", "e", "r", " ", "s", "c", "i", "e", "n", "c", "e">>,
       value |-> <<"C", "o", "m", "p", "u", "t", "e", "r", " ", "S", "c", "i", "e", "n", "c", "e">>],
      [key |-> <<"c", "s">>, value |-> <<"C", "o", "m", "p", "u", "t", "e", "r", " ", "S", "c", "i", "e", "n", "c", "e">>],
      [key |-> <<"b", "u", "s", "i", "n", "e", "s", "s">>, value |-> <<"B", "u", "s", "i", "n", "e", "s", "s">>],
      [key |-> <<"a", "r", "t", "s">>, value |-> <<"A", "r", "t", "s">>],
      [key |-> <<"s", "c", "i", "e", "n", "c", "e">>, value |-> <<"S", "c", "i", "e", "n", "c", "e">>]>>

\* the table scanned from its last keyword
extractDepartment_LastKeyword(lower) ==
    IF \E k \in 1..Len(DepartmentMap) : Includes(lower, DepartmentMap[k].key)
    THEN DepartmentMap[CHOOSE k \in 1..Len(DepartmentMap) :
                          /\ Includes(lower, DepartmentMap[k].key)
                          /\ \A m \in (k + 1)..Len(DepartmentMap) :
                                ~Includes(lower, DepartmentMap[m].key)].value
    ELSE <<"E", "n", "g", "i", "n", "e", "e", "r", "i", "n", "g">>

extractDepartment(lower) ==
    IF \E k \in 1..Len(DepartmentMap) : Includes(lower, DepartmentMap[k].key)
    THEN DepartmentMap[CHOOSE k \in 1..Len(DepartmentMap) :
                          /\ Includes(lower, DepartmentMap[k].key)
                          /\ \A m \in 1..(k - 1) : ~Includes(lower, DepartmentMap[m].key)].value
    ELSE <<"E", "n", "g", "i", "n", "e", "e", "r", "i", "n", "g">>

\* lower.match(/(\d+)\s*%?/), then parseInt(match[1], 10), 70 without a match
extractThreshold(lower) ==
    IF \E i \in 1..Len(lower) : IsDigit(lower[i])
    THEN LET first == CHOOSE i \in 1..Len(lower) :
                         IsDigit(lower[i]) /\ \A m \in 1..(i - 1) : ~IsDigit(lower[m])
         IN  DigitsValue(lower, first, ScanDigits(lower, first) - 1)
    ELSE 70

WordImproving == <<"i", "m", "p", "r", "o", "v", "i", "n", "g">>
WordImprovement == <<"i", "m", "p", "r", "o", "v", "e", "m", "e", "n", "t">>
WordHow == <<"h", "o", "w">>
WordIs == <<"i", "s">>
WordDoing == <<"d", "o", "i", "n", "g">>

IsWordAt(items, j, w, minGap) ==
    j <= Len(items) /\ items[j].word /\ items[j].t = w /\ items[j].gap >= minGap

IsAnyWordAt(items, j, minGap) ==
    j <= Len(items) /\ items[j].word /\ items[j].gap >= minGap

\* the name captured by a match of
\* /\b(is\s+)?(\w+)\s+improving\b|\b(\w+)\s+improvement\b|\bhow\s+is\s+(\w+)\s+doing\b/
\* that starts at item i: <<name>>, or <<>> when none starts there
NameMatchAt(items, i) ==
    IF ~items[i].word THEN <<>>
    ELSE IF /\ items[i].t = WordIs
            /\ IsAnyWordAt(items, i + 1, 1)
            /\ IsWordAt(items, i + 2, WordImproving, 1)
         THEN <<items[i + 1].t>>
    ELSE IF IsWordAt(items, i + 1, WordImproving, 1) THEN <<items[i].t>>
    ELSE IF IsWordAt(items, i + 1, WordImprovement, 1) THEN <<items[i].t>>
    ELSE IF /\ items[i].t = WordHow
            /\ IsWordAt(items, i + 1, WordIs, 1)
            /\ IsAnyWordAt(items, i + 2, 1)
            /\ IsWordAt(items, i + 3, WordDoing, 1)
         THEN <<items[i + 2].t>>
    ELSE <<>>

\* the leftmost match decides; '' without a match
extractName(items) ==
    IF \E i \in 1..Len(items) : NameMatchAt(items, i) # <<>>
    THEN NameMatchAt(items, CHOOSE i \in 1..Len(items) :
                        /\ NameMatchAt(items, i) # <<>>
                        /\ \A m \in 1..(i - 1) : NameMatchAt(items, m) = <<>>)[1]
    ELSE <<>>

\* params: each parameter is <<>> when absent and <<value>> when present
NoParams == [department |-> <<>>, threshold |-> <<>>, firstName |-> <<>>]

\* the value interpretQuery returns; via tells whether a quick command
\* ("command") or a pattern rule ("pattern") or none ("none") resolved it
Interpreted(intent, params, q, via) ==
    [intent |-> intent, params |-> params, rawQuery |-> q, via |-> via]

CmdSummary == <<"/", "s", "u", "m", "m", "a", "r", "y">>
CmdRisk == <<"/", "r", "i", "s", "k">>
CmdTop == <<"/", "t", "o", "p">>
CmdAlerts == <<"/", "a", "l", "e", "r", "t", "s">>

\* String.prototype.startsWith for a one-character prefix
startsWith(s, c) == s # <<>> /\ s[1] = c

\* the natural-language rules with the summary rule tried last
interpretPatterns_SummaryLast(q, lower) ==
    LET items == Tokenize(lower)
    IN  IF Test(AtRiskRegex, items)
        THEN Interpreted("at_risk", NoParams, q, "pattern")
        ELSE IF Test(DepartmentRegex, items)
        THEN Interpreted("department",
                         [NoParams EXCEPT !.department = <<extractDepartment(lower)>>], q, "pattern")
        ELSE IF Test(HighestGpaRegex, items)
        THEN Interpreted("highest_gpa", NoParams, q, "pattern")
        ELSE IF Test(LowAttendanceRegex, items)
        THEN Interpreted("low_attendance",
                         [NoParams EXCEPT !.threshold = <<extractThreshold(lower)>>], q, "pattern")
        ELSE IF Test(PlacementRegex, items)
        THEN Interpreted("placement_ready", NoParams, q, "pattern")
        ELSE IF Test(TrendRegex, items)
        THEN Interpreted("student_trend",
                         [NoParams EXCEPT !.firstName = <<extractName(items)>>], q, "pattern")
        ELSE IF Test(ComparisonRegex, items)
        THEN Interpreted("department_comparison", NoParams, q, "pattern")
        ELSE IF Test(AlertsRegex, items)
        THEN Interpreted("alerts", NoParams, q, "pattern")
        ELSE IF Test(SummaryRegex, items) /\ ~startsWith(lower, "/")
        THEN Interpreted("summary", NoParams, q, "pattern")
        ELSE Interpreted("unknown", NoParams, q, "none")

\* the natural-language rules of interpretQuery, in the order of the code
interpretPatterns(q, lower) ==
    LET items == Tokenize(lower)
    IN  IF Test(AtRiskRegex, items)
        THEN Interpreted("at_risk", NoParams, q, "pattern")
        ELSE IF Test(DepartmentRegex, items)
        THEN Interpreted("department",
                         [NoParams EXCEPT !.department = <<extractDepartment(lower)>>], q, "pattern")
        ELSE IF Test(HighestGpaRegex, items)
        THEN Interpreted("highest_gpa", NoParams, q, "pattern")
        ELSE IF Test(LowAttendanceRegex, items)
        THEN Interpreted("low_attendance",
                         [NoParams EXCEPT !.threshold = <<extractThreshold(lower)>>], q, "pattern")
        ELSE IF Test(SummaryRegex, items) /\ ~startsWith(lower, "/")
        THEN Interpreted("summary", NoParams, q, "pattern")
        ELSE IF Test(PlacementRegex, items)
        THEN Interpreted("placement_ready", NoParams, q, "pattern")
        ELSE IF Test(TrendRegex, items)
        THEN Interpreted("student_trend",
                         [NoParams EXCEPT !.firstName = <<extractName(items)>>], q, "pattern")
        ELSE IF Test(ComparisonRegex, items)
        THEN Interpreted("department_comparison", NoParams, q, "pattern")
        ELSE IF Test(AlertsRegex, items)
        THEN Interpreted("alerts", NoParams, q, "pattern")
        ELSE Interpreted("unknown", NoParams, q, "none")

interpretQuery(raw) ==
    LET q == Trim(raw)
        lower == toLowerCase(q)
    IN  IF lower = CmdSummary THEN Interpreted("summary", NoParams, q, "command")
        ELSE IF lower = CmdRisk THEN Interpreted("at_risk", NoParams, q, "command")
        ELSE IF lower = CmdTop THEN Interpreted("highest_gpa", NoParams, q, "command")
        ELSE IF lower = CmdAlerts THEN Interpreted("alerts", NoParams, q, "command")
        ELSE interpretPatterns(q, lower)

----------------------------------------------------------------------------
(* AssistantModel: the queries over the student list *)

(* A student record seen by the assistant also has lastName, department     *)
(* (characters) and tags (a sequence of character sequences).               *)
(* An operator that uses a value several times takes it as a parameter: the *)
(* value a method keeps in a const is the argument of the operator that     *)
(* models the rest of the method.                                           *)

\* the elements of list whose index is in keep, in order
RECURSIVE PickFrom(_, _, _)
PickFrom(list, keep, i) ==
    IF i > Len(list) THEN <<>>
    ELSE (IF i \in keep THEN <<list[i]>> ELSE <<>>) \o PickFrom(list, keep, i + 1)

\* Array.prototype.filter, the kept indices given
Filter(list, keep) == PickFrom(list, keep, 1)

\* Array.prototype.slice(0, n)
SliceFirst(list, n) == IF Len(list) <= n THEN list ELSE SubSeq(list, 1, n)

PREDEFINED_TAGS ==
    <<<<"S", "c", "h", "o", "l", "a", "r", "s", "h", "i", "p", " ", "C", "a", "n", "d", "i", "d", "a", "t", "e">>,
      <<"S", "p", "o", "r", "t", "s", " ", "C", "a", "p", "t", "a", "i", "n">>,
      <<"P", "l", "a", "c", "e", "m", "e", "n", "t", " ", "R", "e", "a", "d", "y">>,
      <<"N", "e", "e", "d", "s", " ", "A", "t", "t", "e", "n", "t", "i", "o", "n">>,
      <<"D", "e", "a", "n", "'", "s", " ", "L", "i", "s", "t">>,
      <<"R", "e", "s", "e", "a", "r", "c", "h", " ", "A", "s", "s", "i", "s", "t", "a", "n", "t">>,
      <<"C", "l", "u", "b", " ", "L", "e", "a", "d", "e", "r">>,
      <<"M", "e", "n", "t", "o", "r", "s", "h", "i", "p", " ", "P", "r", "o", "g", "r", "a", "m">>>>

\* the predefined tag with the least index in found, the tag itself when none
canonicalTag(t, found) ==
    IF t = <<>> THEN <<>>
    ELSE IF found # {}
    THEN PREDEFINED_TAGS[CHOOSE k \in found : \A m \in found : k <= m]
    ELSE t

trimmedTag(t) ==
    canonicalTag(t, {k \in 1..Len(PREDEFINED_TAGS) :
                        toLowerCase(PREDEFINED_TAGS[k]) = toLowerCase(t)})

normalizeTag(tag) == trimmedTag(Trim(tag))

\* filter(Boolean) and the removal of repeated tags
uniqueTags(mapped) ==
    Filter(mapped, {i \in 1..Len(mapped) :
                       /\ mapped[i] # <<>>
                       /\ \A j \in 1..(i - 1) : mapped[j] # mapped[i]})

normalizeTags(tags) == uniqueTags([i \in 1..Len(tags) |-> normalizeTag(tags[i])])

\* _ensurePerformanceHistory
ensurePerformanceHistory(student) ==
    IF Len(student.performanceHistory) = 0
    THEN <<calculatePerformanceScore(student.gpa, student.attendance,
                                     student.assignmentScore)>>
    ELSE SliceLast(student.performanceHistory, 5)

\* getAllStudents: a copy of the list with tags normalized and the history present
getAllStudents(list) ==
    [i \in 1..Len(list) |->
        [list[i] EXCEPT !.tags = normalizeTags(list[i].tags),
                        !.performanceHistory = ensurePerformanceHistory(list[i])]]

riskAttendanceThreshold == 70000
riskGPAThreshold == 2500

\* at risk with the attendance test only
getAtRiskStudents_AttendanceOnly(list) ==
    LET all == getAllStudents(list)
    IN  Filter(all, {i \in 1..Len(all) :
            LET att == parseInt(all[i].attendance)
            IN  ~att.nan /\ att.v < riskAttendanceThreshold})

isAtRisk(att, gpa) ==
    \/ ~att.nan /\ att.v < riskAttendanceThreshold
    \/ ~gpa.nan /\ gpa.v < riskGPAThreshold

atRiskAmong(all) ==
    Filter(all, {i \in 1..Len(all) :
                    isAtRisk(parseInt(all[i].attendance), parseFloat(all[i].gpa))})

getAtRiskStudents(list) == atRiskAmong(getAllStudents(list))

inDepartmentAmong(all, term) ==
    IF term = <<>> THEN all
    ELSE Filter(all, {i \in 1..Len(all) : Includes(toLowerCase(all[i].department), term)})

getStudentsByDepartment(list, deptName) ==
    inDepartmentAmong(getAllStudents(list), toLowerCase(Trim(deptName)))

\* parseFloat(v) || 0, parseInt(v, 10) || 0
OrZero(r) == IF r.nan THEN 0 ELSE r.v

MaxOf(gpas) == CHOOSE m \in gpas : \A g \in gpas : g <= m

hasGpa(gpa, maxGpa) == ~gpa.nan /\ gpa.v = maxGpa

withGpaAmong(all, maxGpa) ==
    Filter(all, {i \in 1..Len(all) : hasGpa(parseFloat(all[i].gpa), maxGpa)})

highestGpaAmong(all) ==
    IF Len(all) = 0 THEN <<>>
    ELSE withGpaAmong(all, MaxOf({OrZero(parseFloat(all[i].gpa)) : i \in 1..Len(all)}))

getHighestGPAStudents(list) == highestGpaAmong(getAllStudents(list))

\* threshold is the integer of params.threshold, att is in thousandths
isBelow(att, threshold) == ~att.nan /\ att.v < threshold * 1000

lowAttendanceAmong(all, threshold) ==
    Filter(all, {i \in 1..Len(all) : isBelow(parseInt(all[i].attendance), threshold)})

getLowAttendanceStudents(list, threshold) ==
    lowAttendanceAmong(getAllStudents(list), threshold)

TagPlacementReady == <<"P", "l", "a", "c", "e", "m", "e", "n", "t", " ", "R", "e", "a", "d", "y">>

hasPlacementTag(tags) ==
    \E k \in 1..Len(tags) : toLowerCase(tags[k]) = toLowerCase(TagPlacementReady)

isPlacementReady(s) ==
    \/ hasPlacementTag(s.tags)
    \/ /\ OrZero(parseFloat(s.gpa)) >= 3500
       /\ OrZero(parseInt(s.attendance)) >= 85000

placementReadyAmong(all) == Filter(all, {i \in 1..Len(all) : isPlacementReady(all[i])})

getPlacementReadyStudents(list) == placementReadyAmong(getAllStudents(list))

\* Array.prototype.find over the indices that match: <<student>>, <<>> for null
firstHit(all, hits) ==
    IF hits = {} THEN <<>>
    ELSE <<all[CHOOSE i \in hits : \A j \in hits : i <= j]>>

findByTermAmong(all, term) ==
    IF term = <<>> THEN <<>>
    ELSE firstHit(all, {i \in 1..Len(all) :
                          \/ Includes(toLowerCase(all[i].firstName), term)
                          \/ Includes(toLowerCase(all[i].lastName), term)})

findStudentByName(list, firstName) ==
    findByTermAmong(getAllStudents(list), toLowerCase(Trim(firstName)))

----------------------------------------------------------------------------
(* Utils.calculateStats, Utils.getDepartmentDistribution and the summaries  *)
(* built on them                                                            *)

\* the indices at which a department occurs first
FirstOccurrences(list) ==
    {i \in 1..Len(list) : \A j \in 1..(i - 1) : list[j].department # list[i].department}

\* [name, count] in the order of first occurrence, firsts being the indices of
\* the first occurrences
departmentEntries(list, firsts) ==
    [k \in 1..Len(firsts) |->
        [name |-> list[firsts[k]].department,
         count |-> Cardinality({j \in 1..Len(list) :
                                  list[j].department = list[firsts[k]].department})]]

getDepartmentDistribution(list) ==
    departmentEntries(list, Filter([i \in 1..Len(list) |-> i], FirstOccurrences(list)))

RECURSIVE SumAttendance(_, _)
SumAttendance(list, i) ==
    IF i > Len(list) THEN 0
    ELSE parseInt(list[i].attendance).v \div 1000 + SumAttendance(list, i + 1)

\* Math.round(sum / n) for a sum that is not negative
RoundedMean(sum, n) == (2 * sum + n) \div (2 * n)

\* Utils.calculateStats, the fields the assistant reads; avgAttendance is
\* [nan, v] with v a whole number
calculateStats(list) ==
    [total |-> Len(list),
     departments |-> Cardinality({list[i].department : i \in 1..Len(list)}),
     avgAttendance |->
        IF Len(list) = 0 THEN Number(0)
        ELSE IF \E i \in 1..Len(list) : parseInt(list[i].attendance).nan THEN NaN
        ELSE Number(RoundedMean(SumAttendance(list, 1), Len(list)))]

\* the fields of getStatistics the assistant reads
statisticsFrom(stats, list) ==
    [totalStudents |-> stats.total,
     departmentCount |-> stats.departments,
     avgAttendance |-> stats.avgAttendance,
     departmentDistribution |-> getDepartmentDistribution(list)]

getStatistics(list) == statisticsFrom(calculateStats(list), list)

(* A response text is a sequence of segments [k, s, c, n]: a literal piece  *)
(* of the template (k = "lit", s), a whole number (k = "num", n), a number  *)
(* in milli (k = "milli", n), or characters taken from a record or from the *)
(* query, k telling which ("first", "last", "id", "value", "dept",          *)
(* "name"), c.                                                              *)

Seg(k, s, c, n) == [k |-> k, s |-> s, c |-> c, n |-> n]
Lit(s) == Seg("lit", s, <<>>, 0)
Whole(n) == Seg("num", "", <<>>, n)
Chars(k, c) == Seg(k, "", c, 0)

\* `${v}` for a field value
Show(v) ==
    IF v.t = "str" THEN Chars("value", v.s)
    ELSE IF v.t = "num" THEN Seg("milli", "", <<>>, v.n)
    ELSE Lit("undefined")

\* `${stats.avgAttendance}`
ShowAverage(avg) == IF avg.nan THEN Lit("NaN") ELSE Whole(avg.v)

\* names.join(sep) for a sequence of segment sequences
RECURSIVE JoinWith(_, _)
JoinWith(parts, sep) ==
    IF parts = <<>> THEN <<>>
    ELSE IF Len(parts) = 1 THEN parts[1]
    ELSE parts[1] \o <<sep>> \o JoinWith(Tail(parts), sep)

\* `${s.firstName} ${s.lastName} (${s.id})`
NameAndId(s) ==
    <<Chars("first", s.firstName), Lit(" "), Chars("last", s.lastName),
      Lit(" ("), Chars("id", s.id), Lit(")")>>

\* `${s.firstName} ${s.lastName} -- ${s.attendance}%` (-- for the dash of the source)
NameAndAttendance(s) ==
    <<Chars("first", s.firstName), Lit(" "), Chars("last", s.lastName),
      Lit(" -- "), Show(s.attendance), Lit("%")>>

NamesAndIds(list) == [i \in 1..Len(list) |-> NameAndId(list[i])]

\* the first entry of the distribution sorted by count, largest first
largestDepartment(dist) ==
    dist[CHOOSE k \in 1..Len(dist) :
            /\ \A m \in 1..Len(dist) : dist[m].count <= dist[k].count
            /\ \A m \in 1..(k - 1) : dist[m].count < dist[k].count]

comparisonSummary(dist, total, top) ==
    <<Lit("There are "), Whole(Len(dist)), Lit(" department(s) with "),
      Whole(total), Lit(" total students. "),
      Chars("dept", top.name), Lit(" has the most students ("),
      Whole(top.count), Lit(").")>>

comparisonOf(dist) ==
    IF Len(dist) = 0
    THEN [summary |-> <<Lit("No department data available.")>>, distribution |-> <<>>]
    ELSE [summary |-> comparisonSummary(dist, SumSeq([k \in 1..Len(dist) |-> dist[k].count]),
                                        largestDepartment(dist)),
          distribution |-> dist]

getDepartmentComparison(list) == comparisonOf(getStatistics(list).departmentDistribution)

overallSummary(stats, atRisk, placementReady) ==
    <<Lit("You have **"), Whole(stats.totalStudents), Lit("** students across **"),
      Whole(stats.departmentCount), Lit("** departments. Average attendance is **"),
      ShowAverage(stats.avgAttendance), Lit("%**. ")>>
    \o (IF atRisk > 0
        THEN <<Whole(atRisk),
               Lit(" student(s) are currently at risk (low GPA or attendance). ")>>
        ELSE <<>>)
    \o (IF placementReady > 0
        THEN <<Whole(placementReady), Lit(" are placement-ready or high performers.")>>
        ELSE <<Lit("Consider tagging placement-ready students for tracking.")>>)

getOverallPerformanceSummary(list) ==
    IF Len(getAllStudents(list)) = 0
    THEN <<Lit("There are no students in the system yet. Add students to see analytics.")>>
    ELSE overallSummary(getStatistics(list), Len(getAtRiskStudents(list)),
                        Len(getPlacementReadyStudents(list)))

\* the suggestion for n students at risk, <<>> for null
alertSuggestion(n) ==
    IF n = 0 THEN <<>>
    ELSE <<Lit("There "), Lit(IF n = 1 THEN "is" ELSE "are"), Lit(" **"), Whole(n),
           Lit("** student"), Lit(IF n = 1 THEN "" ELSE "s"),
           Lit(" needing mentor attention. Ask me \"Who is at risk?\" or use **/risk** to see them.")>>

getAutoAlertSuggestion(list) == alertSuggestion(Len(getAtRiskStudents(list)))

trendSummary(trend, name) ==
    IF trend = "up"
    THEN <<name, Lit(" is improving. Performance has gone up over recent updates.")>>
    ELSE IF trend = "down"
    THEN <<name, Lit(" shows a declining trend in the last few records. Consider reaching out.")>>
    ELSE <<name, Lit(" has been stable recently with no significant change in performance.")>>

getStudentTrendSummary(student) ==
    trendSummary(getPerformanceTrend(ensurePerformanceHistory(student)),
                 Chars("name", Trim(student.firstName \o <<" ">> \o student.lastName)))

----------------------------------------------------------------------------
(* AssistantModel.getResponse *)

\* a response is [text, action]; action is <<>> when the response has none
\* and <<[type, payload]>> otherwise; payload is <<>> for {}
NoAction == <<>>
Action(type, payload) == <<[type |-> type, payload |-> payload]>>
Response(text, action) == [text |-> text, action |-> action]

AtRiskDisplayLimit == 10
DisplayLimit == 8

\* ` ... and ${list.length - limit} more.`, lead being what stands before "..."
More(list, limit, lead) ==
    IF Len(list) > limit
    THEN <<Lit(lead), Lit("... and "), Whole(Len(list) - limit), Lit(" more.")>>
    ELSE <<>>

respondSummary(list) == Response(getOverallPerformanceSummary(list), NoAction)

atRiskResponse(l) ==
    IF Len(l) = 0
    THEN Response(<<Lit("No students are currently at risk. Great job!")>>, NoAction)
    ELSE Response(
           <<Lit("**"), Whole(Len(l)),
             Lit("** student(s) are at risk (attendance < 70% or GPA < 2.5):\n\n")>>
           \o JoinWith(NamesAndIds(SliceFirst(l, AtRiskDisplayLimit)), Lit("\n"))
           \o More(l, AtRiskDisplayLimit, " ")
           \o <<Lit("\n\nI can apply the \"Needs Attention\" filter on the Students page if you'd like.")>>,
           Action("filter_at_risk", <<>>))

respondAtRisk(list) == atRiskResponse(getAtRiskStudents(list))

DefaultDepartment == <<"E", "n", "g", "i", "n", "e", "e", "r", "i", "n", "g">>

departmentResponse(dept, l) ==
    IF Len(l) = 0
    THEN Response(<<Lit("No students found in **"), Chars("dept", dept), Lit("**.")>>,
                  NoAction)
    ELSE Response(
           <<Lit("Found **"), Whole(Len(l)), Lit("** student(s) in **"),
             Chars("dept", dept), Lit("**:\n\n")>>
           \o JoinWith(NamesAndIds(SliceFirst(l, DisplayLimit)), Lit("\n"))
           \o More(l, DisplayLimit, "\n")
           \o <<Lit("\n\nI can show them on the Students page.")>>,
           Action("filter_department", dept))

respondInDepartment(dept, list) ==
    departmentResponse(dept, getStudentsByDepartment(list, dept))

respondDepartment(params, list) ==
    respondInDepartment(IF params.department = <<>> \/ params.department[1] = <<>>
                        THEN DefaultDepartment ELSE params.department[1],
                        list)

highestGpaResponse(l) ==
    IF Len(l) = 0
    THEN Response(<<Lit("No student data available.")>>, NoAction)
    ELSE Response(
           <<Lit("Highest GPA is **"), Show(l[1].gpa), Lit("** -- ")>>
           \o JoinWith(NamesAndIds(l), Lit(", "))
           \o <<Lit(".")>>,
           NoAction)

respondHighestGpa(list) == highestGpaResponse(getHighestGPAStudents(list))

lowAttendanceResponse(threshold, l) ==
    IF Len(l) = 0
    THEN Response(<<Lit("No students have attendance below "), Whole(threshold),
                    Lit("%.")>>, NoAction)
    ELSE Response(
           <<Lit("**"), Whole(Len(l)), Lit("** student(s) have attendance below **"),
             Whole(threshold), Lit("%**:\n\n")>>
           \o JoinWith([i \in 1..Len(SliceFirst(l, DisplayLimit)) |->
                           NameAndAttendance(l[i])], Lit("\n"))
           \o More(l, DisplayLimit, "\n"),
           NoAction)

respondBelow(threshold, list) ==
    lowAttendanceResponse(threshold, getLowAttendanceStudents(list, threshold))

\* the attendance list with a filter action attached
respondLowAttendance_WithAction(params, list) ==
    Response(<<Lit("**"),
               Whole(Len(getLowAttendanceStudents(list,
                            IF params.threshold = <<>> THEN 70 ELSE params.threshold[1]))),
               Lit("** student(s) have attendance below **"),
               Whole(IF params.threshold = <<>> THEN 70 ELSE params.threshold[1]),
               Lit("%**:\n\n")>>,
             Action("filter_attendance", <<>>))

respondLowAttendance(params, list) ==
    respondBelow(IF params.threshold = <<>> THEN 70 ELSE params.threshold[1], list)

placementReadyResponse(l) ==
    IF Len(l) = 0
    THEN Response(<<Lit("No placement-ready students found. Tag students as \"Placement Ready\" or look for GPA >= 3.5 and attendance >= 85%.")>>,
                  NoAction)
    ELSE Response(
           <<Lit("**"), Whole(Len(l)), Lit("** placement-ready student(s):\n\n")>>
           \o JoinWith(NamesAndIds(SliceFirst(l, DisplayLimit)), Lit("\n"))
           \o More(l, DisplayLimit, "\n"),
           Action("filter_tag", TagPlacementReady))

\* the placement list with its action even when it is empty
respondPlacementReady_AlwaysAction(list) ==
    Response(<<Lit("**"), Whole(Len(getPlacementReadyStudents(list))),
               Lit("** placement-ready student(s):\n\n")>>
             \o JoinWith(NamesAndIds(SliceFirst(getPlacementReadyStudents(list), DisplayLimit)),
                         Lit("\n"))
             \o More(getPlacementReadyStudents(list), DisplayLimit, "\n"),
             Action("filter_tag", TagPlacementReady))

respondPlacementReady(list) == placementReadyResponse(getPlacementReadyStudents(list))

trendResponse(firstName, student) ==
    IF student = <<>>
    THEN Response(<<Lit("I couldn't find a student named \""),
                    Chars("name", firstName), Lit("\". Try another name.")>>,
                  NoAction)
    ELSE Response(getStudentTrendSummary(student[1]), NoAction)

respondTrendOf(firstName, list) ==
    IF firstName = <<>>
    THEN Response(<<Lit("Please mention a student's first name, e.g. \"Is Rahul improving?\"")>>,
                  NoAction)
    ELSE trendResponse(firstName, findStudentByName(list, firstName))

respondStudentTrend(params, list) ==
    respondTrendOf(IF params.firstName = <<>> THEN <<>> ELSE Trim(params.firstName[1]), list)

distributionLines(dist) ==
    IF Len(dist) > 0
    THEN <<Lit("\n\n")>>
         \o JoinWith([k \in 1..Len(dist) |->
                         <<Lit("* "), Chars("dept", dist[k].name), Lit(": "),
                           Whole(dist[k].count)>>], Lit("\n"))
    ELSE <<>>

comparisonResponse(cmp) ==
    Response(cmp.summary \o distributionLines(cmp.distribution), NoAction)

respondDepartmentComparison(list) == comparisonResponse(getDepartmentComparison(list))

alertsResponse(suggestion) ==
    IF suggestion # <<>> THEN Response(suggestion, NoAction)
    ELSE Response(<<Lit("No urgent alerts. All students are within safe thresholds.")>>,
                  NoAction)

respondAlerts(list) == alertsResponse(getAutoAlertSuggestion(list))

\* the help message of the default branch
HelpMessage ==
    <<Lit("I can help with:\n\n* **At risk** -- \"How many students are at risk?\" or /risk\n"),
      Lit("* **Department** -- \"Show Engineering students\"\n"),
      Lit("* **Top performer** -- \"Who has highest GPA?\" or /top\n"),
      Lit("* **Attendance** -- \"Students with attendance below 70%\"\n"),
      Lit("* **Summary** -- \"Overall performance summary\" or /summary\n"),
      Lit("* **Placement** -- \"Show placement ready students\"\n"),
      Lit("* **Trend** -- \"Is Rahul improving?\"\n"),
      Lit("* **Departments** -- \"Department comparison\"\n"),
      Lit("* **Alerts** -- /alerts")>>

\* the default branch answering with an action
respondDefault_WithAction == Response(HelpMessage, Action("filter_at_risk", <<>>))

respondDefault == Response(HelpMessage, NoAction)

\* getResponse(interpreted) over the student list the model holds
getResponse(interp, list) ==
    CASE interp.intent = "summary" -> respondSummary(list)
      [] interp.intent = "at_risk" -> respondAtRisk(list)
      [] interp.intent = "department" -> respondDepartment(interp.params, list)
      [] interp.intent = "highest_gpa" -> respondHighestGpa(list)
      [] interp.intent = "low_attendance" -> respondLowAttendance(interp.params, list)
      [] interp.intent = "placement_ready" -> respondPlacementReady(list)
      [] interp.intent = "student_trend" -> respondStudentTrend(interp.params, list)
      [] interp.intent = "department_comparison" -> respondDepartmentComparison(list)
      [] interp.intent = "alerts" -> respondAlerts(list)
      [] OTHER -> respondDefault

----------------------------------------------------------------------------
(* AssistantView and AssistantController: sending a message *)

(* A bubble of the messages container is [role, content], content being the *)
(* text given to renderMessage.  getHistory reads the bubbles back from     *)
(* their HTML; what it reads is not taken to be the text that was rendered  *)
(* (escapeHtml is not undone), so an entry of a history list tells whether  *)
(* its content was read from a bubble (fromBubble) or is the text itself.   *)

Bubble(role, content) == [role |-> role, content |-> content]

\* AssistantController.getHistory: the bubbles read back
getHistory(bubbles) ==
    [i \in 1..Len(bubbles) |->
        [role |-> bubbles[i].role, content |-> bubbles[i].content, fromBubble |-> TRUE]]

HistoryLimit == 100

\* AssistantModel.saveHistory: what it stores
saveHistory(list) == SliceLast(list, HistoryLimit)

\* AssistantController.appendToHistory: what it stores
appendToHistory(bubbles, role, content) ==
    saveHistory(Append(getHistory(bubbles),
                       [role |-> role, content |-> content, fromBubble |-> FALSE]))

\* the text of AssistantView.ensureWelcomeMessage, suggestion being what
\* getAutoAlertSuggestion returned
welcomeWith(suggestion) ==
    <<Lit("Hi! I'm your Smart Admin Assistant. Ask me about at-risk students, departments, GPA, attendance, or type **/summary** for a quick overview.")>>
    \o (IF suggestion # <<>> THEN <<Lit("\n\n")>> \o suggestion ELSE <<>>)

WelcomeMessage(list) == welcomeWith(getAutoAlertSuggestion(list))

\* handleSend from renderMessage on: raw is the trimmed text, result what
\* getResponse returned for it, shown the bubbles with the user's one added
sendMessage(raw, result, shown) ==
    /\ messages' = shown
    /\ chatHistory' = appendToHistory(shown, "user", raw)
    \* showResponseWithTypingDelay: a pending timer is cleared
    /\ typingTimeout' = <<result>>
    /\ sent' = Append(sent, result)
    /\ UNCHANGED applied

\* handleSend, raw being what getInput(true) returned
handleSendOf(raw) ==
    /\ inputEl' = <<>>
    /\ IF raw = <<>>
       THEN UNCHANGED <<typingTimeout, messages, chatHistory, applied, sent>>
       ELSE sendMessage(raw, getResponse(interpretQuery(raw), students),
                        Append(messages, Bubble("user", raw)))

\* AssistantController.handleSend, the typed text being in inputEl
handleSend == handleSendOf(Trim(inputEl))

\* the body of the timer and handleSend's callback, result being the response
\* the timer was set for and shown the bubbles with the assistant's one added
showResponse(result, shown) ==
    /\ typingTimeout' = <<>>
    /\ messages' = shown
    \* what appendToHistory stores is overwritten by saveHistory(getHistory())
    /\ chatHistory' = saveHistory(getHistory(shown))
    /\ applied' = IF result.action # NoAction
                  THEN Append(applied, result.action[1])
                  ELSE applied
    /\ UNCHANGED <<inputEl, sent>>

\* the timer of showResponseWithTypingDelay fires, and runs handleSend's callback
typingTimeoutFires ==
    /\ typingTimeout # <<>>
    /\ showResponse(typingTimeout[1],
                    Append(messages, Bubble("assistant", typingTimeout[1].text)))

----------------------------------------------------------------------------
(* Idle values of the parts of the state a specification does not use *)

StoreIdle ==
    /\ students = <<>>
    /\ nextId = 1
    /\ storage = <<>>
    /\ undo = NoBackup
    /\ lastOp = InitOp
    /\ opCount = 0

ScoreIdle == scoreArgs = <<Undef, Undef, Undef>> /\ scoreRet = NoRet

TrendIdle == histArg = <<>> /\ trendRet = NoRet /\ consRet = NoRet

QueryIdle == rawQuery = <<>> /\ interpreted = NoRet

ResponseIdle == responses = <<>>

ChatIdle ==
    /\ inputEl = <<>>
    /\ typingTimeout = <<>>
    /\ messages = <<>>
    /\ chatHistory = <<>>
    /\ applied = <<>>
    /\ sent = <<>>

\* StudentView.constructor and the page as it is served: the first page, no
\* filter, no search, the delete modal closed, no toast, nothing rendered yet
ViewInit ==
    [currentPage |-> 1,
     departmentFilter |-> <<>>, yearFilter |-> <<>>, genderFilter |-> <<>>,
     tagFilter |-> <<>>, searchInput |-> <<>>, globalSearch |-> <<>>,
     sortSelect |-> "name-asc",
     currentDeletingId |-> <<>>, deleteModalActive |-> FALSE,
     undoToast |-> FALSE, submitDisabled |-> FALSE,
     tableRows |-> <<>>, pageButtons |-> {}]

UiIdle == view = ViewInit /\ activities = <<>> /\ timers = <<>> /\ calls = <<>>

----------------------------------------------------------------------------
(* SpecScore: calculatePerformanceScore applied to bounded inputs *)

MaxStrLen == 3

Alphabet == {"3", "8", "5", ".", "-", "x", " "}

AllStrings == UNION {[1..n -> Alphabet] : n \in 0..MaxStrLen}

AnyValues == {Str(s) : s \in AllStrings} \cup {Undef, Num(3800)}

\* the two arguments that accompany the one ranging over AnyValues: form
\* strings, numbers, and values that do not parse
Companions == {<<Str(<<"9", "2">>), Str(<<"8", "5">>)>>,
               <<Num(92000), Num(85000)>>,
               <<Undef, Str(<<>>)>>}

ScoreInputs ==
    {<<v, c[1], c[2]>> : v \in AnyValues, c \in Companions}
    \cup {<<c[1], v, c[2]>> : v \in AnyValues, c \in Companions}
    \cup {<<c[1], c[2], v>> : v \in AnyValues, c \in Companions}

InitScore ==
    /\ scoreArgs \in ScoreInputs
    /\ scoreRet = NoRet
    /\ StoreIdle /\ TrendIdle /\ QueryIdle /\ ResponseIdle /\ ChatIdle /\ UiIdle

CallCalculatePerformanceScore ==
    /\ scoreRet = NoRet
    /\ scoreRet' = Ret(calculatePerformanceScore(scoreArgs[1], scoreArgs[2], scoreArgs[3]))
    /\ UNCHANGED <<scoreArgs, storeVars, trendVars, queryVars, responseVars, chatVars, uiVars>>

NextScore == CallCalculatePerformanceScore

SpecScore == InitScore /\ [][NextScore]_vars

\* the value an argument contributes: 0 when it does not parse
Contribution(v) == IF parseFloat(v).nan THEN 0 ELSE parseFloat(v).v

\* gpa*10*0.5 + attendance*0.3 + assignmentScore*0.2, in units of 1/10000
WeightedSum(g, a, as) == 50 * g + 3 * a + 2 * as

\* r (milli) is x (units of 1/10000) rounded to 2 decimal places
IsRoundedTo2(r, x) ==
    /\ r % 10 = 0
    /\ r * 10 - x <= 50
    /\ x - r * 10 <= 50

Args383_92_85 == <<Str(<<"3", ".", "8">>), Str(<<"9", "2">>), Str(<<"8", "5">>)>>

\* C4: for numeric inputs the returned score is gpa*10*0.5 + attendance*0.3 +
\* assignmentScore*0.2 rounded to 2 decimal places, and ("3.8", "92", "85")
\* gives 63.6
C4_ScoreIsRoundedWeightedSum ==
    (scoreRet # NoRet /\ \A i \in 1..3 : ~parseFloat(scoreArgs[i]).nan) =>
        /\ IsRoundedTo2(scoreRet[1],
                        WeightedSum(parseFloat(scoreArgs[1]).v,
                                    parseFloat(scoreArgs[2]).v,
                                    parseFloat(scoreArgs[3]).v))
        /\ (scoreArgs = Args383_92_85 => scoreRet[1] = 63600)

C4_Witness ==
    /\ scoreArgs = Args383_92_85
    /\ scoreRet = Ret(63600)

ArgsNumeric383_92_85 == <<Num(3800), Num(92000), Num(85000)>>

\* C5 as stated: computeScore(3.8, 92, 85) returns 53.0
C5_Original ==
    (scoreRet # NoRet /\ scoreArgs = ArgsNumeric383_92_85) => scoreRet[1] = 53000

\* C5 amended: computeScore(3.8, 92, 85) returns 63.6
C5_ScoreOfExampleIs63_6 ==
    (scoreRet # NoRet /\ scoreArgs = ArgsNumeric383_92_85) => scoreRet[1] = 63600

C5_Witness ==
    /\ scoreArgs = ArgsNumeric383_92_85
    /\ scoreRet # NoRet

\* C6: an input that does not parse as a number contributes 0: the score is
\* the rounded weighted sum of the parseable inputs, and 0 when none parses
C6_UnparseableContributesZero ==
    scoreRet # NoRet =>
        /\ IsRoundedTo2(scoreRet[1],
                        WeightedSum(Contribution(scoreArgs[1]),
                                    Contribution(scoreArgs[2]),
                                    Contribution(scoreArgs[3])))
        /\ ((\A i \in 1..3 : parseFloat(scoreArgs[i]).nan) => scoreRet[1] = 0)

\* non-numeric gpa, attendance "92", assignment score "85": 27.6 + 17 = 44.6
C6_Witness ==
    /\ scoreArgs = <<Str(<<"x">>), Str(<<"9", "2">>), Str(<<"8", "5">>)>>
    /\ scoreRet = Ret(44600)

C6_WitnessAllUnparseable ==
    /\ scoreArgs = <<Str(<<"-", ".">>), Undef, Str(<<>>)>>
    /\ scoreRet = Ret(0)

----------------------------------------------------------------------------
(* SpecTrend, SpecConsistency: the classifiers applied to bounded histories *)

MaxHistLen == 6

\* samples around the trend threshold: differences of 0.05 and 0.051
TrendSamples == {0, 50, 51, 200}

InitTrend ==
    /\ histArg \in SeqsUpTo(TrendSamples, MaxHistLen)
    /\ trendRet = NoRet
    /\ consRet = NoRet
    /\ StoreIdle /\ ScoreIdle /\ QueryIdle /\ ResponseIdle /\ ChatIdle /\ UiIdle

CallGetPerformanceTrend ==
    /\ trendRet = NoRet
    /\ trendRet' = Ret(getPerformanceTrend(histArg))
    /\ UNCHANGED <<histArg, consRet, storeVars, scoreVars, queryVars, responseVars, chatVars, uiVars>>

NextTrend == CallGetPerformanceTrend

SpecTrend == InitTrend /\ [][NextTrend]_vars

\* C7: fewer than 2 samples give 'stable'; otherwise only d = (last sample) -
\* (first of the last 3 samples) decides: 'up' if d > 0.05, 'down' if
\* d < -0.05, else 'stable'
C7_TrendFromLastThree ==
    trendRet # NoRet =>
        LET n == Len(histArg)
            d == histArg[n] - histArg[IF n >= 3 THEN n - 2 ELSE 1]
            t == IF n < 2 THEN "stable"
                 ELSE IF d > 50 THEN "up"
                 ELSE IF d < 0 - 50 THEN "down"
                 ELSE "stable"
        IN  trendRet[1] = t /\ localTrend(histArg) = t

\* an old sample far below and a middle sample far above the window's ends,
\* which differ by exactly 0.05
C7_Witness ==
    /\ histArg = <<0, 200, 0, 200, 50>>
    /\ trendRet = Ret("stable")

C7_WitnessDown ==
    /\ histArg = <<0, 51, 0, 0>>
    /\ trendRet = Ret("down")

\* samples around the variance threshold: [0, 0, 3] has variance exactly 2
ConsistencySamples == {0, 1000, 3000, 3001}

InitConsistency ==
    /\ histArg \in SeqsUpTo(ConsistencySamples, MaxHistLen)
    /\ trendRet = NoRet
    /\ consRet = NoRet
    /\ StoreIdle /\ ScoreIdle /\ QueryIdle /\ ResponseIdle /\ ChatIdle /\ UiIdle

CallGetPerformanceConsistency ==
    /\ consRet = NoRet
    /\ consRet' = Ret(getPerformanceConsistency(histArg))
    /\ UNCHANGED <<histArg, trendRet, storeVars, scoreVars, queryVars, responseVars, chatVars, uiVars>>

NextConsistency == CallGetPerformanceConsistency

SpecConsistency == InitConsistency /\ [][NextConsistency]_vars

RECURSIVE SumOfSquares(_)
SumOfSquares(arr) == IF arr = <<>> THEN 0 ELSE arr[1] * arr[1] + SumOfSquares(Tail(arr))

\* population variance of w is at most 2: mean of squares minus square of
\* mean, (sum v^2)/n - (sum v / n)^2 <= 2, multiplied by n^2
PopulationVarianceAtMost2(w) ==
    Len(w) * SumOfSquares(w) - SumSeq(w) * SumSeq(w) <= 2000000 * Len(w) * Len(w)

\* C8: over the last at most 5 samples, fewer than 2 give 'high'; otherwise
\* 'high' exactly when the population variance is <= 2.0, else 'low'
C8_ConsistencyFromPopulationVariance ==
    consRet # NoRet =>
        LET n == Len(histArg)
            w == [i \in 1..(IF n > 5 THEN 5 ELSE n) |-> histArg[i + (IF n > 5 THEN n - 5 ELSE 0)]]
        IN  /\ consRet[1] \in {"high", "low"}
            /\ consRet[1] = "high" <=> (Len(w) < 2 \/ PopulationVarianceAtMost2(w))

\* variance 1.44 over the last 5 of 6 samples; with the sample before them
\* it would be above 2.0
C8_Witness ==
    /\ histArg = <<3001, 0, 0, 3000, 0, 0>>
    /\ ~PopulationVarianceAtMost2(histArg)
    /\ consRet = Ret("high")

\* variance 2.16 over the last 5 samples
C8_WitnessLow ==
    /\ histArg = <<0, 0, 0, 3000, 3000>>
    /\ consRet = Ret("low")

C8_WitnessAtThreshold ==
    /\ histArg = <<0, 0, 3000>>
    /\ consRet = Ret("high")

----------------------------------------------------------------------------
(* Spec: the record store under every model operation, from an empty or a   *)
(* loaded store                                                             *)

NameAsha == <<"A", "b", "a">>
EmailA == <<"a", "@", "b", ".", "c">>
EmailAUpper == <<"A", "@", "b", ".", "c">>
EmailD == <<"d", "@", "b", ".", "c">>

Gpa20 == Str(<<"2", ".", "0">>)
Gpa26 == Str(<<"2", ".", "6">>)
Att92 == Str(<<"9", "2">>)
Att82 == Str(<<"8", "2">>)
Asg85 == Str(<<"8", "5">>)

\* what the registration form submits: two new students, an email already
\* used up to letter case, and a GPA of 9, which fails validation
AddInputs ==
    [firstName : {NameAsha}, email : {EmailA, EmailD},
     gpa : {Gpa20}, attendance : {Att92}, assignmentScore : {Asg85}]
    \cup
    [firstName : {NameAsha}, email : {EmailAUpper},
     gpa : {Gpa26, Str(<<"9">>)}, attendance : {Att92}, assignmentScore : {Asg85}]

\* what the edit form submits.  (2.0, 92) and (2.6, 82) score the same 54.6
UpdateInputs ==
    [gpa : {Gpa20, Gpa26}, attendance : {Att92, Att82}]
    \cup [email : {EmailD}]

\* updates as any caller of updateStudent may pass them: also with a
\* performanceHistory of its own, empty or longer than 5
CallerUpdateInputs ==
    UpdateInputs
    \cup [gpa : {Gpa26},
          performanceHistory : {<<>>, <<10000, 20000, 30000, 40000, 50000, 60000>>}]

\* records written by other versions of the application or found in an
\* imported file: without a history, or with one longer than 5
LegacyId == <<"STU", "2025", <<"0", "0", "1">>>>

LegacyStudent ==
    [id |-> LegacyId, firstName |-> NameAsha, email |-> EmailA,
     gpa |-> Gpa20, attendance |-> Att92, assignmentScore |-> Undef,
     performanceHistory |-> <<>>]

\* six samples, the last one 0.001 away from the record's score 54.6
LongStudent ==
    [id |-> <<"STU", "2025", <<"0", "0", "2">>>>, firstName |-> NameAsha, email |-> EmailD,
     gpa |-> Gpa20, attendance |-> Att92, assignmentScore |-> Asg85,
     performanceHistory |-> <<10000, 20000, 30000, 40000, 50000, 54601>>]

StoredLists == {<<>>, <<LegacyStudent>>, <<LongStudent>>, <<LongStudent, LegacyStudent>>}

ImportInputs ==
    [isArray : {TRUE}, students : {<<LegacyStudent>>, <<LongStudent>>}]
    \cup [isArray : {FALSE}, students : {<<>>}]

UnknownId == <<"STU", "2026", <<"9", "9", "9">>>>

KnownIds == {students[i].id : i \in 1..Len(students)}

\* the constructor applied to what localStorage holds
Init ==
    /\ \E stored \in StoredLists :
          /\ students = migratePerformanceHistory(stored)
          /\ storage = IF migrationChanged(stored) THEN migratePerformanceHistory(stored) ELSE stored
          /\ nextId = getNextAvailableId(migratePerformanceHistory(stored))
    /\ undo = NoBackup
    /\ lastOp = InitOp
    /\ opCount = 0
    /\ ScoreIdle /\ TrendIdle /\ QueryIdle /\ ResponseIdle /\ ChatIdle /\ UiIdle

MaxOps == 3

\* one more operation, within the bound max on the length of a run
Step(max) ==
    /\ opCount < max
    /\ opCount' = opCount + 1
    /\ UNCHANGED <<scoreVars, trendVars, queryVars, responseVars, chatVars, uiVars>>

AddStudent ==
    /\ \E studentData \in AddInputs : addStudent(studentData)
    /\ Step(MaxOps)

UpdateStudent ==
    /\ \E id \in KnownIds \cup {UnknownId} :
          \E updates \in CallerUpdateInputs : updateStudent(id, updates)
    /\ Step(MaxOps)

DeleteStudent ==
    /\ \E id \in KnownIds \cup {UnknownId} : deleteStudent(id)
    /\ Step(MaxOps)

ClearAllData ==
    /\ clearAllData
    /\ Step(MaxOps)

RestoreUndoBackup ==
    /\ restoreUndoBackup
    /\ Step(MaxOps)

ImportFromJSON ==
    /\ \E data \in ImportInputs : importFromJSON(data)
    /\ Step(MaxOps)

Reload ==
    /\ constructor
    /\ Step(MaxOps)

Next ==
    \/ AddStudent
    \/ UpdateStudent
    \/ DeleteStudent
    \/ ClearAllData
    \/ RestoreUndoBackup
    \/ ImportFromJSON
    \/ Reload

Spec == Init /\ [][Next]_vars

ScoreOf(s) == calculatePerformanceScore(s.gpa, s.attendance, s.assignmentScore)

Last(h) == h[Len(h)]

\* new is old with score appended, cut down to its last 5 entries: it ends
\* with score, and before that come the latest entries of old in their order
IsAppendedAndTrimmed(old, score, new) ==
    /\ Len(new) = (IF Len(old) + 1 > 5 THEN 5 ELSE Len(old) + 1)
    /\ new[Len(new)] = score
    /\ \A k \in 1..(Len(new) - 1) : new[k] = old[Len(old) - (Len(new) - 1) + k]

\* C2: an accepted updateStudent whose recomputed score differs from the last
\* sample by more than 0.001 appends it and keeps the last 5 entries in
\* order; from an empty history the result is exactly [newScore]
C2_AppendDropsOldest ==
    [][(lastOp'.op = "updateStudent" /\ lastOp'.result = "ok") =>
         \A updates \in CallerUpdateInputs :
            updateStudent(lastOp'.id, updates) =>
               LET index == findIndex(students, lastOp'.id)
                   old == IF "performanceHistory" \in DOMAIN updates
                          THEN updates.performanceHistory
                          ELSE students[index].performanceHistory
                   new == students'[index].performanceHistory
                   newScore == ScoreOf(students'[index])
               IN  /\ old = <<>> => new = <<newScore>>
                   /\ (old # <<>> /\ Abs(newScore - Last(old)) > 1) =>
                          IsAppendedAndTrimmed(old, newScore, new)
      ]_vars

\* the record loaded with six samples, after the GPA went from 2.0 to 2.6:
\* the score 57.6 is appended and the oldest kept sample, 20, is evicted
C2_Witness ==
    /\ lastOp = Op("updateStudent", LongStudent.id, "ok")
    /\ \E i \in 1..Len(students) :
          /\ students[i].id = LongStudent.id
          /\ students[i].performanceHistory = <<30000, 40000, 50000, 54601, 57600>>

\* an update that carried an empty history of its own
C2_WitnessEmpty ==
    /\ lastOp.op = "updateStudent" /\ lastOp.result = "ok"
    /\ \E i \in 1..Len(students) :
          /\ students[i].id = LegacyId
          /\ students[i].performanceHistory = <<40600>>

----------------------------------------------------------------------------
(* SpecEdit: students registered through addStudent and edited through the  *)
(* edit form, from an empty store                                           *)

InitEdit ==
    /\ StoreIdle
    /\ ScoreIdle /\ TrendIdle /\ QueryIdle /\ ResponseIdle /\ ChatIdle /\ UiIdle

MaxEditOps == 5

RegisterStudent ==
    /\ \E studentData \in AddInputs : addStudent(studentData)
    /\ Step(MaxEditOps)

EditStudent ==
    /\ \E id \in KnownIds \cup {UnknownId} :
          \E updates \in UpdateInputs : updateStudent(id, updates)
    /\ Step(MaxEditOps)

RemoveStudent ==
    /\ \E id \in KnownIds \cup {UnknownId} : deleteStudent(id)
    /\ Step(MaxEditOps)

NextEdit ==
    \/ RegisterStudent
    \/ EditStudent
    \/ RemoveStudent

SpecEdit == InitEdit /\ [][NextEdit]_vars

C3_WitnessAppended ==
    /\ lastOp.op = "updateStudent" /\ lastOp.result = "ok"
    /\ \E i \in 1..Len(students) :
          students[i].performanceHistory = <<54600, 57600, 54600, 51600, 54600>>

----------------------------------------------------------------------------
(* SpecQuery: interpretQuery applied to bounded texts *)

MaxPhrases == 2

\* what the user types: phrases joined by single spaces; the empty phrase
\* gives leading, trailing and doubled spaces
Phrases ==
    {<<>>,
     <<"/", "s", "u", "m", "m", "a", "r", "y">>,
     <<"/", "r", "i", "s", "k">>,
     <<"/", "t", "o", "p">>,
     <<"/", "a", "l", "e", "r", "t", "s">>,
     <<"/", "R", "I", "S", "K">>,
     <<"a", "t", " ", "r", "i", "s", "k">>,
     <<"h", "o", "w", " ", "m", "a", "n", "y">>,
     <<"r", "i", "s", "k", " ", "c", "o", "u", "n", "t">>,
     <<"S", "h", "o", "w">>,
     <<"e", "n", "g", "i", "n", "e", "e", "r", "i", "n", "g", " ", "s", "t", "u", "d", "e", "n", "t", "s">>,
     <<"E", "n", "g", "i", "n", "e", "e", "r", "i", "n", "g">>,
     <<"a", "r", "t", "s", " ", "s", "t", "u", "d", "e", "n", "t", "s">>,
     <<"h", "i", "g", "h", "e", "s", "t", " ", "g", "p", "a">>,
     <<"l", "o", "w", " ", "a", "t", "t", "e", "n", "d", "a", "n", "c", "e">>,
     <<"a", "t", "t", "e", "n", "d", "a", "n", "c", "e", " ", "b", "e", "l", "o", "w", " ", "6", "5", "%">>,
     <<"b", "e", "l", "o", "w", " ", "6", "5", " ", "%", " ", "a", "t", "t", "e", "n", "d", "a", "n", "c", "e">>,
     <<"s", "u", "m", "m", "a", "r", "y">>,
     <<"p", "l", "a", "c", "e", "m", "e", "n", "t", " ", "r", "e", "a", "d", "y">>,
     <<"i", "s", " ", "r", "a", "h", "u", "l", " ", "i", "m", "p", "r", "o", "v", "i", "n", "g">>,
     <<"d", "e", "p", "a", "r", "t", "m", "e", "n", "t", " ", "c", "o", "m", "p", "a", "r", "i", "s", "o", "n">>,
     <<"a", "l", "e", "r", "t", "s">>,
     <<"h", "e", "l", "l", "o">>,
     <<"a", "l", "e", "r", "t", "s", " ", "s", "u", "m", "m", "a", "r", "y">>}

RECURSIVE Join(_)
Join(ps) ==
    IF ps = <<>> THEN <<>>
    ELSE IF Len(ps) = 1 THEN ps[1]
    ELSE ps[1] \o <<" ">> \o Join(Tail(ps))

Texts == {Join(ps) : ps \in SeqsUpTo(Phrases, MaxPhrases)}

InitQuery ==
    /\ rawQuery \in Texts
    /\ interpreted = NoRet
    /\ StoreIdle /\ ScoreIdle /\ TrendIdle /\ ResponseIdle /\ ChatIdle /\ UiIdle

CallInterpretQuery ==
    /\ interpreted = NoRet
    /\ interpreted' = Ret(interpretQuery(rawQuery))
    /\ UNCHANGED <<rawQuery, storeVars, scoreVars, trendVars, responseVars, chatVars, uiVars>>

NextQuery == CallInterpretQuery

SpecQuery == InitQuery /\ [][NextQuery]_vars

Commands == {CmdSummary, CmdRisk, CmdTop, CmdAlerts}

CommandIntent(cmd) ==
    CASE cmd = CmdSummary -> "summary"
      [] cmd = CmdRisk -> "at_risk"
      [] cmd = CmdTop -> "highest_gpa"
      [] cmd = CmdAlerts -> "alerts"

\* the text is cmd in some letter case, with nothing else
IsCommand(text, cmd) == toLowerCase(text) = cmd

\* the text is cmd in some letter case between leading and trailing spaces
IsPaddedCommand(text, cmd) ==
    \E i \in 0..Len(text) : \E j \in i..Len(text) :
       /\ \A k \in 1..i : IsSpace(text[k])
       /\ \A k \in (j + 1)..Len(text) : IsSpace(text[k])
       /\ toLowerCase(SubSeq(text, i + 1, j)) = cmd

\* C9 as stated: the quick-command rule resolves a text exactly when the
\* lowercased text equals a command, and then to the command's intent; a
\* text holding anything besides the command is not resolved by that rule.
C9_Original ==
    interpreted # NoRet =>
        /\ \A cmd \in Commands :
              IsCommand(rawQuery, cmd) =>
                 /\ interpreted[1].via = "command"
                 /\ interpreted[1].intent = CommandIntent(cmd)
        /\ interpreted[1].via = "command" => \E cmd \in Commands : IsCommand(rawQuery, cmd)

\* C9 (amended): the quick commands are checked before any pattern rule, by
\* equality on the trimmed, lowercased text: '/summary' -> summary,
\* '/risk' -> at_risk, '/top' -> highest_gpa, '/alerts' -> alerts, in any
\* letter case and with any leading or trailing spaces; a text that holds a
\* command together with other characters than such spaces is not resolved
\* by the quick-command rule.
C9_SlashCommandOnTrimmedText ==
    interpreted # NoRet =>
        /\ \A cmd \in Commands :
              IsPaddedCommand(rawQuery, cmd) =>
                 /\ interpreted[1].via = "command"
                 /\ interpreted[1].intent = CommandIntent(cmd)
                 /\ interpreted[1].params = NoParams
        /\ interpreted[1].via = "command" =>
              \E cmd \in Commands : IsPaddedCommand(rawQuery, cmd)

\* a command in upper case is resolved by the quick-command rule
C9_Witness ==
    /\ rawQuery = <<"/", "R", "I", "S", "K">>
    /\ interpreted # NoRet
    /\ interpreted[1].via = "command"
    /\ interpreted[1].intent = "at_risk"

\* a command after a space is resolved by the quick-command rule
C9_WitnessPadded ==
    /\ rawQuery = <<" ">> \o CmdSummary
    /\ interpreted # NoRet
    /\ interpreted[1].via = "command"
    /\ interpreted[1].intent = "summary"

\* a command followed by a word is not resolved by the quick-command rule
C9_WitnessNotAlone ==
    /\ rawQuery = CmdRisk \o <<" ", "h", "e", "l", "l", "o">>
    /\ interpreted # NoRet
    /\ interpreted[1].via = "none"
    /\ interpreted[1].intent = "unknown"

\* the condition under which the pattern rule of an intent applies
RuleApplies(intent, lower) ==
    LET items == Tokenize(lower)
    IN  CASE intent = "at_risk" -> Test(AtRiskRegex, items)
          [] intent = "department" -> Test(DepartmentRegex, items)
          [] intent = "highest_gpa" -> Test(HighestGpaRegex, items)
          [] intent = "low_attendance" -> Test(LowAttendanceRegex, items)
          [] intent = "summary" -> Test(SummaryRegex, items) /\ lower[1] # "/"
          [] intent = "placement_ready" -> Test(PlacementRegex, items)
          [] intent = "student_trend" -> Test(TrendRegex, items)
          [] intent = "department_comparison" -> Test(ComparisonRegex, items)
          [] intent = "alerts" -> Test(AlertsRegex, items)

\* the rules of an order that apply to the text
Applying(order, lower) == {k \in 1..Len(order) : RuleApplies(order[k], lower)}

\* the intent of the earliest applying rule of an order
Earliest(order, lower) ==
    order[CHOOSE k \in Applying(order, lower) : \A m \in Applying(order, lower) : k <= m]

StatedOrder ==
    <<"at_risk", "department", "highest_gpa", "low_attendance",
      "placement_ready", "student_trend", "department_comparison", "alerts">>

OrderWithSummary ==
    <<"at_risk", "department", "highest_gpa", "low_attendance", "summary",
      "placement_ready", "student_trend", "department_comparison", "alerts">>

\* C10 as stated: a text that is no quick command and matches more than one
\* of the eight rules at-risk, department, highest-GPA, attendance-threshold,
\* placement-ready, student-trend, department-comparison, alerts gets the
\* intent of the earliest of them that matches.
C10_Original ==
    interpreted # NoRet =>
        LET lower == toLowerCase(Trim(rawQuery))
        IN  (interpreted[1].via # "command" /\ Cardinality(Applying(StatedOrder, lower)) > 1)
               => interpreted[1].intent = Earliest(StatedOrder, lower)

\* C10 (amended): a text that is no quick command and matches more than one
\* pattern rule gets the intent of the earliest matching rule in the order
\* at-risk, department, highest-GPA, attendance-threshold, summary (for a
\* text that does not start with '/'), placement-ready, student-trend,
\* department-comparison, alerts; no later rule overrides an earlier one.
C10_FirstMatchingRuleWins ==
    interpreted # NoRet =>
        LET lower == toLowerCase(Trim(rawQuery))
        IN  (interpreted[1].via # "command" /\ Cardinality(Applying(OrderWithSummary, lower)) > 1)
               => /\ interpreted[1].via = "pattern"
                  /\ interpreted[1].intent = Earliest(OrderWithSummary, lower)

\* a text with the at-risk and the department phrasing yields at_risk
C10_Witness ==
    /\ rawQuery = <<"a", "t", " ", "r", "i", "s", "k", " ", "e", "n", "g", "i", "n", "e", "e", "r", "i", "n", "g", " ", "s", "t", "u", "d", "e", "n", "t", "s">>
    /\ interpreted # NoRet
    /\ interpreted[1].intent = "at_risk"
    /\ Applying(OrderWithSummary, rawQuery) = {1, 2}

\* a text with the summary and the placement-ready phrasing yields summary
C10_WitnessSummary ==
    /\ rawQuery = <<"p", "l", "a", "c", "e", "m", "e", "n", "t", " ", "r", "e", "a", "d", "y", " ", "s", "u", "m", "m", "a", "r", "y">>
    /\ interpreted # NoRet
    /\ interpreted[1].intent = "summary"
    /\ Applying(OrderWithSummary, rawQuery) = {5, 6}

----------------------------------------------------------------------------
(* SpecParams: interpretQuery applied to texts with the department and the  *)
(* attendance phrasings                                                     *)

MaxParamPhrases == 2

ParamPhrases ==
    {<<"a", "t", "t", "e", "n", "d", "a", "n", "c", "e", " ", "b", "e", "l", "o", "w", " ", "6", "5", "%">>,
     <<"b", "e", "l", "o", "w", " ", "6", "5", " ", "%", " ", "a", "t", "t", "e", "n", "d", "a", "n", "c", "e">>,
     <<"l", "o", "w", " ", "a", "t", "t", "e", "n", "d", "a", "n", "c", "e">>,
     <<"y", "e", "a", "r", " ", "2">>,
     <<"a", "r", "t", "s", " ", "s", "t", "u", "d", "e", "n", "t", "s">>,
     <<"E", "n", "g", "i", "n", "e", "e", "r", "i", "n", "g", " ", "s", "t", "u", "d", "e", "n", "t", "s">>,
     <<"p", "h", "y", "s", "i", "c", "s">>,
     <<"S", "h", "o", "w">>,
     <<"b", "u", "s", "i", "n", "e", "s", "s", " ", "s", "t", "u", "d", "e", "n", "t", "s">>,
     <<"s", "c", "i", "e", "n", "c", "e", " ", "s", "t", "u", "d", "e", "n", "t", "s">>,
     <<"h", "e", "l", "l", "o">>}

ParamTexts == {Join(ps) : ps \in SeqsUpTo(ParamPhrases, MaxParamPhrases)}

InitParams ==
    /\ rawQuery \in ParamTexts
    /\ interpreted = NoRet
    /\ StoreIdle /\ ScoreIdle /\ TrendIdle /\ ResponseIdle /\ ChatIdle /\ UiIdle

SpecParams == InitParams /\ [][NextQuery]_vars

\* the value of the digits that start the word w
LeadingNumber(w) == DigitsValue(w, 1, ScanDigits(w, 1) - 1)

WordAttendance == <<"a", "t", "t", "e", "n", "d", "a", "n", "c", "e">>
WordBelow == <<"b", "e", "l", "o", "w">>

\* 'attendance below N' starts at item i
AttendanceBelowAt(items, i) ==
    /\ items[i].word /\ items[i].t = WordAttendance
    /\ IsWordAt(items, i + 1, WordBelow, 1)
    /\ IsAnyWordAt(items, i + 2, 1) /\ IsDigit(items[i + 2].t[1])

\* 'below N% attendance' starts at item i
BelowPercentAt(items, i) ==
    /\ items[i].word /\ items[i].t = WordBelow
    /\ IsAnyWordAt(items, i + 1, 1)
    /\ \A k \in 1..Len(items[i + 1].t) : IsDigit(items[i + 1].t[k])
    /\ i + 2 <= Len(items) /\ items[i + 2].t = <<"%">>
    /\ IsWordAt(items, i + 3, WordAttendance, 0)

\* the number carried by the leftmost attendance phrasing of the text, 70
\* when the text has no attendance phrasing with a number
PhrasingThreshold(lower) ==
    LET items == Tokenize(lower)
        at == {i \in 1..Len(items) : AttendanceBelowAt(items, i) \/ BelowPercentAt(items, i)}
    IN  IF at = {} THEN 70
        ELSE LET i == CHOOSE k \in at : \A m \in at : k <= m
             IN  IF AttendanceBelowAt(items, i) THEN LeadingNumber(items[i + 2].t)
                 ELSE LeadingNumber(items[i + 1].t)

\* C12: whenever interpretQuery returns low_attendance, params.threshold is
\* the number of the attendance phrasing that matched ('attendance below N',
\* 'below N% attendance'), and 70 when the phrasing carries no number
\* ('low attendance')
C12_ThresholdFromPhrasing ==
    (interpreted # NoRet /\ interpreted[1].intent = "low_attendance") =>
        interpreted[1].params.threshold = <<PhrasingThreshold(toLowerCase(Trim(rawQuery)))>>

\* 'attendance below 65%' gives threshold 65
C12_Witness ==
    /\ rawQuery = <<"a", "t", "t", "e", "n", "d", "a", "n", "c", "e", " ", "b", "e", "l", "o", "w", " ", "6", "5", "%">>
    /\ interpreted # NoRet
    /\ interpreted[1].intent = "low_attendance"
    /\ interpreted[1].params.threshold = <<65>>

\* a number before the phrasing is taken as the threshold
C12_WitnessOtherNumber ==
    /\ rawQuery = <<"y", "e", "a", "r", " ", "2", " ", "a", "t", "t", "e", "n", "d", "a", "n", "c", "e", " ", "b", "e", "l", "o", "w", " ", "6", "5", "%">>
    /\ interpreted # NoRet
    /\ interpreted[1].intent = "low_attendance"
    /\ interpreted[1].params.threshold = <<2>>

\* key occurs in text
Contains(text, key) ==
    \E i \in 0..(Len(text) - Len(key)) : \A k \in 1..Len(key) : text[i + k] = key[k]

CanonicalNames ==
    {<<"E", "n", "g", "i", "n", "e", "e", "r", "i", "n", "g">>,
     <<"C", "o", "m", "p", "u", "t", "e", "r", " ", "S", "c", "i", "e", "n", "c", "e">>,
     <<"B", "u", "s", "i", "n", "e", "s", "s">>,
     <<"A", "r", "t", "s">>,
     <<"S", "c", "i", "e", "n", "c", "e">>}

\* the canonical name of the first keyword of the table that the text holds
TableDepartment(lower) ==
    IF Contains(lower, <<"e", "n", "g", "i", "n", "e", "e", "r", "i", "n", "g">>) THEN <<"E", "n", "g", "i", "n", "e", "e", "r", "i", "n", "g">>
    ELSE IF Contains(lower, <<"c", "o", "m", "p", "u", "t", "e", "r", " ", "s", "c", "i", "e", "n", "c", "e">>)
    THEN <<"C", "o", "m", "p", "u", "t", "e", "r", " ", "S", "c", "i", "e", "n", "c", "e">>
    ELSE IF Contains(lower, <<"c", "s">>) THEN <<"C", "o", "m", "p", "u", "t", "e", "r", " ", "S", "c", "i", "e", "n", "c", "e">>
    ELSE IF Contains(lower, <<"b", "u", "s", "i", "n", "e", "s", "s">>) THEN <<"B", "u", "s", "i", "n", "e", "s", "s">>
    ELSE IF Contains(lower, <<"a", "r", "t", "s">>) THEN <<"A", "r", "t", "s">>
    ELSE IF Contains(lower, <<"s", "c", "i", "e", "n", "c", "e">>) THEN <<"S", "c", "i", "e", "n", "c", "e">>
    ELSE <<"E", "n", "g", "i", "n", "e", "e", "r", "i", "n", "g">>

\* C13: whenever interpretQuery returns department, params.department is one
\* of the five canonical names: that of the first keyword of the table
\* (engineering, computer science, cs, business, arts, science) found
\* anywhere in the text, and Engineering when none is found
C13_DepartmentFromTable ==
    (interpreted # NoRet /\ interpreted[1].intent = "department") =>
        /\ interpreted[1].params.department = <<TableDepartment(toLowerCase(Trim(rawQuery)))>>
        /\ interpreted[1].params.department[1] \in CanonicalNames

\* 'Show Engineering students' gives Engineering
C13_Witness ==
    /\ rawQuery = <<"S", "h", "o", "w", " ", "E", "n", "g", "i", "n", "e", "e", "r", "i", "n", "g", " ", "s", "t", "u", "d", "e", "n", "t", "s">>
    /\ interpreted # NoRet
    /\ interpreted[1].intent = "department"
    /\ interpreted[1].params.department = <<<<"E", "n", "g", "i", "n", "e", "e", "r", "i", "n", "g">>>>

\* the table's order decides, not the order in the text
C13_WitnessTableOrder ==
    /\ rawQuery = <<"s", "c", "i", "e", "n", "c", "e", " ", "s", "t", "u", "d", "e", "n", "t", "s", " ", "a", "r", "t", "s", " ", "s", "t", "u", "d", "e", "n", "t", "s">>
    /\ interpreted # NoRet
    /\ interpreted[1].intent = "department"
    /\ interpreted[1].params.department = <<<<"A", "r", "t", "s">>>>

\* a keyword inside another word counts: 'cs' in 'physics'
C13_WitnessInsideWord ==
    /\ rawQuery = <<"p", "h", "y", "s", "i", "c", "s", " ", "a", "r", "t", "s", " ", "s", "t", "u", "d", "e", "n", "t", "s">>
    /\ interpreted # NoRet
    /\ interpreted[1].intent = "department"
    /\ interpreted[1].params.department = <<<<"C", "o", "m", "p", "u", "t", "e", "r", " ", "S", "c", "i", "e", "n", "c", "e">>>>

----------------------------------------------------------------------------
(* SpecAssistant: a question interpreted and answered, twice, over a store  *)
(* of up to MaxRoster students                                              *)

MaxRoster == 11
MaxCalls == 2

\* the k-th student of a store: its name, id and email carry k
RosterStudent(k, gpa, attendance, department, tags) ==
    [id |-> generateStudentID(k),
     firstName |-> <<"N">> \o DigitsOf(k),
     lastName |-> <<"L">> \o DigitsOf(k),
     email |-> <<"n">> \o DigitsOf(k) \o <<"@", "x", ".", "y">>,
     gpa |-> Str(gpa), attendance |-> Str(attendance), assignmentScore |-> Asg85,
     department |-> department, tags |-> tags,
     performanceHistory |->
        <<calculatePerformanceScore(Str(gpa), Str(attendance), Asg85)>>]

\* GPA 2.0 and attendance 60: at risk on both counts
RiskStudent(k) == RosterStudent(k, <<"2", ".", "0">>, <<"6", "0">>, <<"E", "n", "g", "i", "n", "e", "e", "r", "i", "n", "g">>, <<>>)

\* GPA 2.4 and attendance 80: at risk by the GPA only
LowGpaStudent(k) == RosterStudent(k, <<"2", ".", "4">>, <<"8", "0">>, <<"B", "u", "s", "i", "n", "e", "s", "s">>, <<>>)

\* GPA 3.8 and attendance 92, tagged in lower case
TopStudent(k) ==
    RosterStudent(k, <<"3", ".", "8">>, <<"9", "2">>, <<"C", "o", "m", "p", "u", "t", "e", "r", " ", "S", "c", "i", "e", "n", "c", "e">>,
                  <<<<"p", "l", "a", "c", "e", "m", "e", "n", "t", " ", "r", "e", "a", "d", "y">>>>)

\* GPA 3.0 and attendance 80: neither at risk nor placement-ready
PlainStudent(k) == RosterStudent(k, <<"3", ".", "0">>, <<"8", "0">>, <<"S", "c", "i", "e", "n", "c", "e">>, <<>>)

Profiles == {"risk", "top", "plain", "mixed"}

Roster(profile, n) ==
    [k \in 1..n |->
        CASE profile = "risk" -> RiskStudent(k)
          [] profile = "top" -> TopStudent(k)
          [] profile = "plain" -> PlainStudent(k)
          [] profile = "mixed" -> IF k % 3 = 1 THEN RiskStudent(k)
                                  ELSE IF k % 3 = 2 THEN LowGpaStudent(k)
                                  ELSE TopStudent(k)]

Rosters == {Roster(profile, n) : profile \in Profiles, n \in 0..MaxRoster}

AssistantTexts ==
    {<<"/", "s", "u", "m", "m", "a", "r", "y">>,
     <<"o", "v", "e", "r", "a", "l", "l", " ", "p", "e", "r", "f", "o", "r", "m", "a", "n", "c", "e", " ", "s", "u", "m", "m", "a", "r", "y">>,
     <<"H", "o", "w", " ", "m", "a", "n", "y", " ", "s", "t", "u", "d", "e", "n", "t", "s", " ", "a", "r", "e", " ", "a", "t", " ", "r", "i", "s", "k", "?">>,
     <<"S", "h", "o", "w", " ", "E", "n", "g", "i", "n", "e", "e", "r", "i", "n", "g", " ", "s", "t", "u", "d", "e", "n", "t", "s">>,
     <<"a", "r", "t", "s", " ", "s", "t", "u", "d", "e", "n", "t", "s">>,
     <<"/", "t", "o", "p">>,
     <<"a", "t", "t", "e", "n", "d", "a", "n", "c", "e", " ", "b", "e", "l", "o", "w", " ", "6", "5", "%">>,
     <<"l", "o", "w", " ", "a", "t", "t", "e", "n", "d", "a", "n", "c", "e">>,
     <<"p", "l", "a", "c", "e", "m", "e", "n", "t", " ", "r", "e", "a", "d", "y">>,
     <<"i", "s", " ", "n", "1", " ", "i", "m", "p", "r", "o", "v", "i", "n", "g">>,
     <<"i", "s", " ", "z", "e", "d", " ", "i", "m", "p", "r", "o", "v", "i", "n", "g">>,
     <<"d", "e", "p", "a", "r", "t", "m", "e", "n", "t", " ", "c", "o", "m", "p", "a", "r", "i", "s", "o", "n">>,
     <<"/", "a", "l", "e", "r", "t", "s">>,
     <<"h", "e", "l", "l", "o">>}

InitAssistant ==
    /\ students \in Rosters
    /\ storage = students
    /\ nextId = getNextAvailableId(students)
    /\ undo = NoBackup
    /\ lastOp = InitOp
    /\ opCount = 0
    /\ rawQuery \in AssistantTexts
    /\ interpreted = NoRet
    /\ responses = <<>>
    /\ ScoreIdle /\ TrendIdle /\ ChatIdle /\ UiIdle

\* getResponse handing out the list itself: the normalized copy is written back
CallGetResponse_WritesBack ==
    /\ interpreted # NoRet
    /\ Len(responses) < MaxCalls
    /\ responses' = Append(responses, getResponse(interpreted[1], students))
    /\ students' = getAllStudents(students)
    /\ UNCHANGED <<nextId, storage, undo, lastOp, opCount>>
    /\ UNCHANGED <<scoreVars, trendVars, queryVars, chatVars, uiVars>>

\* getResponse writes nothing but its return value
CallGetResponse ==
    /\ interpreted # NoRet
    /\ Len(responses) < MaxCalls
    /\ responses' = Append(responses, getResponse(interpreted[1], students))
    /\ UNCHANGED <<storeVars, scoreVars, trendVars, queryVars, chatVars, uiVars>>

NextAssistant ==
    \/ CallInterpretQuery
    \/ CallGetResponse

SpecAssistant == InitAssistant /\ [][NextAssistant]_vars

\* C11 as stated: a text that is no quick command and matches none of the
\* eight rules at-risk, department, highest-GPA, attendance-threshold,
\* placement-ready, student-trend, department-comparison, alerts is
\* interpreted as unknown, and answered with the help message and no action.
C11_Original ==
    (/\ interpreted # NoRet
     /\ interpreted[1].via # "command"
     /\ Applying(StatedOrder, toLowerCase(Trim(rawQuery))) = {}) =>
        /\ interpreted[1].intent = "unknown"
        /\ \A k \in 1..Len(responses) : responses[k] = Response(HelpMessage, NoAction)

\* C11 (amended): a text that is no quick command and matches none of the
\* nine rules at-risk, department, highest-GPA, attendance-threshold,
\* summary, placement-ready, student-trend, department-comparison, alerts is
\* interpreted as unknown, and getResponse for unknown returns the fixed help
\* message with no action.
C11_UnknownGetsHelp ==
    /\ (/\ interpreted # NoRet
        /\ interpreted[1].via # "command"
        /\ Applying(OrderWithSummary, toLowerCase(Trim(rawQuery))) = {}) =>
           interpreted[1].intent = "unknown"
    /\ (interpreted # NoRet /\ interpreted[1].intent = "unknown") =>
           \A k \in 1..Len(responses) : responses[k] = Response(HelpMessage, NoAction)

\* 'hello' over a store of students: unknown, answered with the help message
C11_Witness ==
    /\ rawQuery = <<"h", "e", "l", "l", "o">>
    /\ Len(students) > 0
    /\ interpreted # NoRet /\ interpreted[1].intent = "unknown"
    /\ Len(responses) > 0
    /\ responses[1].text = HelpMessage /\ responses[1].action = NoAction

\* a text of the summary phrasing only is answered with the summary
C11_WitnessSummary ==
    /\ rawQuery = <<"o", "v", "e", "r", "a", "l", "l", " ", "p", "e", "r", "f", "o", "r", "m", "a", "n", "c", "e", " ", "s", "u", "m", "m", "a", "r", "y">>
    /\ Applying(StatedOrder, rawQuery) = {}
    /\ interpreted # NoRet /\ interpreted[1].intent = "summary"
    /\ Len(responses) > 0 /\ responses[1].text # HelpMessage

\* the record has attendance < 70 or GPA < 2.5
IsAtRiskRecord(s) ==
    \/ ~parseInt(s.attendance).nan /\ parseInt(s.attendance).v < 70000
    \/ ~parseFloat(s.gpa).nan /\ parseFloat(s.gpa).v < 2500

AtRiskCount == Cardinality({i \in 1..Len(students) : IsAtRiskRecord(students[i])})

\* the whole numbers a text states, in order
StatedNumbers(text) ==
    LET at == Filter([i \in 1..Len(text) |-> i], {i \in 1..Len(text) : text[i].k = "num"})
    IN  [j \in 1..Len(at) |-> text[at[j]].n]

\* C14: the count stated in the at_risk response is the number of records
\* with attendance < 70 or GPA < 2.5, and a count of at least 1 comes with
\* the action filter_at_risk
C14_AtRiskCountAndAction ==
    (interpreted # NoRet /\ interpreted[1].intent = "at_risk") =>
        \A k \in 1..Len(responses) :
            IF AtRiskCount = 0
            THEN StatedNumbers(responses[k].text) = <<>> /\ responses[k].action = NoAction
            ELSE /\ StatedNumbers(responses[k].text)[1] = AtRiskCount
                 /\ responses[k].text[2] = Whole(AtRiskCount)
                 /\ responses[k].action = Action("filter_at_risk", <<>>)

\* one student at GPA 2.0 and attendance 60: count 1 and the action
C14_Witness ==
    /\ students = Roster("risk", 1)
    /\ rawQuery = <<"H", "o", "w", " ", "m", "a", "n", "y", " ", "s", "t", "u", "d", "e", "n", "t", "s", " ", "a", "r", "e", " ", "a", "t", " ", "r", "i", "s", "k", "?">>
    /\ interpreted # NoRet /\ interpreted[1].intent = "at_risk"
    /\ Len(responses) > 0
    /\ responses[1].text[2] = Whole(1)
    /\ responses[1].action = Action("filter_at_risk", <<>>)

\* a student at risk by the GPA only is counted
C14_WitnessGpaOnly ==
    /\ students = Roster("mixed", 3)
    /\ interpreted # NoRet /\ interpreted[1].intent = "at_risk"
    /\ Len(responses) > 0
    /\ responses[1].text[2] = Whole(2)

\* the action the response to an intent may carry, if it carries one
AllowedAction(interp) ==
    CASE interp.intent = "at_risk" -> Action("filter_at_risk", <<>>)
      [] interp.intent = "department" -> Action("filter_department", interp.params.department[1])
      [] interp.intent = "placement_ready" -> Action("filter_tag", <<"P", "l", "a", "c", "e", "m", "e", "n", "t", " ", "R", "e", "a", "d", "y">>)
      [] OTHER -> NoAction

\* C15: a response has at most one action, and only for at_risk
\* (filter_at_risk), department (filter_department with the department name)
\* and placement_ready (filter_tag with 'Placement Ready'); the responses to
\* the other intents have none
C15_ActionsOnlyForThreeIntents ==
    interpreted # NoRet =>
        \A k \in 1..Len(responses) :
            /\ Len(responses[k].action) <= 1
            /\ \/ responses[k].action = NoAction
               \/ responses[k].action = AllowedAction(interpreted[1])

\* the department response with its action
C15_Witness ==
    /\ rawQuery = <<"S", "h", "o", "w", " ", "E", "n", "g", "i", "n", "e", "e", "r", "i", "n", "g", " ", "s", "t", "u", "d", "e", "n", "t", "s">>
    /\ interpreted # NoRet /\ interpreted[1].intent = "department"
    /\ Len(responses) > 0
    /\ responses[1].action = Action("filter_department", <<"E", "n", "g", "i", "n", "e", "e", "r", "i", "n", "g">>)

\* a low_attendance response that lists students has no action
C15_WitnessNoAction ==
    /\ students = Roster("risk", 2)
    /\ interpreted # NoRet /\ interpreted[1].intent = "low_attendance"
    /\ Len(responses) > 0
    /\ StatedNumbers(responses[1].text)[1] = 2
    /\ responses[1].action = NoAction

\* the placement_ready response with its action
C15_WitnessTag ==
    /\ interpreted # NoRet /\ interpreted[1].intent = "placement_ready"
    /\ Len(responses) > 0
    /\ responses[1].action = Action("filter_tag", <<"P", "l", "a", "c", "e", "m", "e", "n", "t", " ", "R", "e", "a", "d", "y">>)

\* how many students a text names
NamesListed(text) == Cardinality({i \in 1..Len(text) : text[i].k = "first"})

\* the text has '... and n more.'
StatesMore(text, n) ==
    \E i \in 1..(Len(text) - 2) :
        text[i] = Lit("... and ") /\ text[i + 1] = Whole(n) /\ text[i + 2] = Lit(" more.")

\* the students an intent's response lists
MatchingSet(interp) ==
    CASE interp.intent = "at_risk" -> getAtRiskStudents(students)
      [] interp.intent = "department" ->
            getStudentsByDepartment(students, interp.params.department[1])
      [] interp.intent = "highest_gpa" -> getHighestGPAStudents(students)
      [] interp.intent = "low_attendance" ->
            getLowAttendanceStudents(students, interp.params.threshold[1])
      [] interp.intent = "placement_ready" -> getPlacementReadyStudents(students)

\* the response names at most limit students of the matching set, and states
\* how many more there are when it leaves some out
CappedAt(limit, interp, text) ==
    LET size == Len(MatchingSet(interp))
    IN  /\ NamesListed(text) = (IF size > limit THEN limit ELSE size)
        /\ size > limit => StatesMore(text, size - limit)
        /\ size <= limit => \A n \in 0..Len(students) : ~StatesMore(text, n)

\* C16: every listing intent names at most a fixed number of students, 10
\* for at_risk and 8 for department, highest_gpa, low_attendance and
\* placement_ready, and ends a cut list with '... and N more', N being the
\* size of the matching set minus the limit
C16_ListingsAreCapped ==
    interpreted # NoRet =>
        \A k \in 1..Len(responses) :
            /\ interpreted[1].intent = "at_risk" =>
                  CappedAt(10, interpreted[1], responses[k].text)
            /\ interpreted[1].intent \in {"department", "highest_gpa", "low_attendance",
                                          "placement_ready"} =>
                  CappedAt(8, interpreted[1], responses[k].text)

\* the same for the intents other than highest_gpa
OtherListingsAreCapped ==
    interpreted # NoRet =>
        \A k \in 1..Len(responses) :
            /\ interpreted[1].intent = "at_risk" =>
                  CappedAt(10, interpreted[1], responses[k].text)
            /\ interpreted[1].intent \in {"department", "low_attendance", "placement_ready"} =>
                  CappedAt(8, interpreted[1], responses[k].text)

\* nine students tied at the highest GPA are all named
C16_WitnessHighestGpa ==
    /\ students = Roster("top", 9)
    /\ interpreted # NoRet /\ interpreted[1].intent = "highest_gpa"
    /\ Len(responses) > 0
    /\ NamesListed(responses[1].text) = 9
    /\ ~StatesMore(responses[1].text, 1)

\* eleven students at risk: ten named, '... and 1 more'
C16_WitnessAtRisk ==
    /\ students = Roster("risk", 11)
    /\ interpreted # NoRet /\ interpreted[1].intent = "at_risk"
    /\ Len(responses) > 0
    /\ NamesListed(responses[1].text) = 10
    /\ StatesMore(responses[1].text, 1)

\* nothing in the store answers the question
NothingMatches(interp) ==
    CASE interp.intent \in {"at_risk", "department", "highest_gpa", "low_attendance",
                            "placement_ready"} -> Len(MatchingSet(interp)) = 0
      [] interp.intent = "student_trend" ->
            findStudentByName(students, interp.params.firstName[1]) = <<>>
      [] interp.intent = "alerts" -> Len(getAtRiskStudents(students)) = 0
      [] OTHER -> Len(students) = 0

\* the text is a template with the question's own parameters at most: it
\* names no student and takes nothing from a record
IsPlainMessage(text) ==
    /\ Len(text) > 0
    /\ \A i \in 1..Len(text) : text[i].k \in {"lit", "num", "dept", "name"}
    /\ \E i \in 1..Len(text) : text[i].k = "lit" /\ text[i].s # ""

\* C17: on an empty store, and on a store where no record matches, each of
\* the ten intents gets a normal non-empty text and no action; every
\* response has a non-empty text
C17_NoDataIsANormalResponse ==
    interpreted # NoRet =>
        \A k \in 1..Len(responses) :
            /\ Len(responses[k].text) > 0
            /\ (Len(students) = 0 \/ NothingMatches(interpreted[1])) =>
                  /\ IsPlainMessage(responses[k].text)
                  /\ responses[k].action = NoAction
            /\ (Len(students) = 0 /\ interpreted[1].intent = "summary") =>
                  responses[k].text =
                     <<Lit("There are no students in the system yet. Add students to see analytics.")>>
            /\ (NothingMatches(interpreted[1]) /\ interpreted[1].intent = "department") =>
                  responses[k].text[1] = Lit("No students found in **")

\* the summary of an empty store
C17_Witness ==
    /\ students = <<>>
    /\ interpreted # NoRet /\ interpreted[1].intent = "summary"
    /\ Len(responses) > 0
    /\ responses[1] =
          Response(<<Lit("There are no students in the system yet. Add students to see analytics.")>>,
                   NoAction)

\* a store of students none of whom is placement-ready
C17_WitnessNoMatch ==
    /\ students = Roster("plain", 3)
    /\ interpreted # NoRet /\ interpreted[1].intent = "placement_ready"
    /\ Len(responses) > 0
    /\ responses[1].action = NoAction
    /\ IsPlainMessage(responses[1].text)

\* the department comparison of an empty store
C17_WitnessEmptyStoreAnswered ==
    /\ students = <<>>
    /\ interpreted # NoRet
    /\ interpreted[1].intent = "department_comparison"
    /\ Len(responses) > 0
    /\ responses[1] = Response(<<Lit("No department data available.")>>, NoAction)

----------------------------------------------------------------------------
(* SpecChat: messages typed and sent, and the typing delay running out, at  *)
(* any pace                                                                 *)

MaxSends == 3

ChatInputs ==
    {<<"/", "r", "i", "s", "k">>,
     <<"h", "e", "l", "l", "o">>,
     <<"S", "h", "o", "w", " ", "E", "n", "g", "i", "n", "e", "e", "r", "i", "n", "g", " ", "s", "t", "u", "d", "e", "n", "t", "s", " ">>,
     <<" ">>}

InitChat ==
    /\ students = Roster("mixed", 3)
    /\ storage = students
    /\ nextId = getNextAvailableId(students)
    /\ undo = NoBackup
    /\ lastOp = InitOp
    /\ opCount = 0
    /\ inputEl = <<>>
    /\ typingTimeout = <<>>
    /\ messages = <<Bubble("assistant", WelcomeMessage(students))>>
    /\ chatHistory = <<>>
    /\ applied = <<>>
    /\ sent = <<>>
    /\ ScoreIdle /\ TrendIdle /\ QueryIdle /\ ResponseIdle /\ UiIdle

\* the user types a message
TypeMessage ==
    /\ Len(sent) < MaxSends
    /\ inputEl = <<>>
    /\ inputEl' \in ChatInputs
    /\ UNCHANGED <<typingTimeout, messages, chatHistory, applied, sent>>
    /\ UNCHANGED <<storeVars, scoreVars, trendVars, queryVars, responseVars, uiVars>>

\* the send button or the Enter key
HandleSend ==
    /\ inputEl # <<>>
    /\ handleSend
    /\ UNCHANGED <<storeVars, scoreVars, trendVars, queryVars, responseVars, uiVars>>

TypingTimeoutFires ==
    /\ typingTimeoutFires
    /\ UNCHANGED <<storeVars, scoreVars, trendVars, queryVars, responseVars, uiVars>>

NextChat ==
    \/ TypeMessage
    \/ HandleSend
    \/ TypingTimeoutFires

SpecChat == InitChat /\ [][NextChat]_vars

\* the assistant's bubbles after the welcome message
AssistantBubbles ==
    Filter(messages, {i \in 2..Len(messages) : messages[i].role = "assistant"})

\* the actions of the results that have one, in order
ActionsOf(results) ==
    LET with == Filter(results, {i \in 1..Len(results) : results[i].action # NoAction})
    IN  [i \in 1..Len(with) |-> with[i].action[1]]

\* C19: the typing delay only postpones a response: whenever no delay is
\* pending, the response computed for every message sent, also for one sent
\* while the delay of the message before it was pending, has been rendered
\* and appended to the chat history, and its action applied
C19_EveryResponseIsDelivered ==
    typingTimeout = <<>> =>
        /\ Len(AssistantBubbles) = Len(sent)
        /\ \A k \in 1..Len(sent) : AssistantBubbles[k].content = sent[k].text
        /\ \A k \in 1..Len(sent) :
              \E i \in 1..Len(chatHistory) :
                 chatHistory[i].role = "assistant" /\ chatHistory[i].content = sent[k].text
        /\ applied = ActionsOf(sent)

\* two messages sent within the delay: the response to the first, and its
\* action, are lost
C19_WitnessDropped ==
    /\ typingTimeout = <<>>
    /\ Len(sent) = 2
    /\ sent[1].action = Action("filter_at_risk", <<>>)
    /\ Len(AssistantBubbles) = 1
    /\ AssistantBubbles[1].content = sent[2].text
    /\ applied = <<>>

\* a message whose delay ran out before the next one was sent
C19_WitnessDelivered ==
    /\ typingTimeout = <<>>
    /\ Len(sent) = 1
    /\ sent[1].action = Action("filter_at_risk", <<>>)
    /\ AssistantBubbles[1].content = sent[1].text
    /\ applied = <<sent[1].action[1]>>

----------------------------------------------------------------------------
(* SpecEmail: addStudent, updateStudent and deleteStudent called from an    *)
(* empty store, the updates changing the email                              *)

MaxEmailOps == 5

\* the email an update carries: new, used by another record, used up to
\* letter case, or empty.  updateStudent validates nothing, and checks an
\* email only when it is truthy
EmailUpdateInputs == [email : {EmailA, EmailAUpper, EmailD, <<>>}]

InitEmail ==
    /\ StoreIdle
    /\ ScoreIdle /\ TrendIdle /\ QueryIdle /\ ResponseIdle /\ ChatIdle /\ UiIdle

AddStudentCall ==
    /\ \E studentData \in AddInputs : addStudent(studentData)
    /\ Step(MaxEmailOps)

UpdateEmailCall ==
    /\ \E id \in KnownIds \cup {UnknownId} :
          \E updates \in EmailUpdateInputs : updateStudent(id, updates)
    /\ Step(MaxEmailOps)

DeleteStudentCall ==
    /\ \E id \in KnownIds \cup {UnknownId} : deleteStudent(id)
    /\ Step(MaxEmailOps)

NextEmail ==
    \/ AddStudentCall
    \/ UpdateEmailCall
    \/ DeleteStudentCall

SpecEmail == InitEmail /\ [][NextEmail]_vars

\* C20: from an empty store, under any sequence of addStudent, updateStudent
\* and deleteStudent calls, no two stored students have emails that are
\* equal ignoring case
C20_NoTwoEmailsEqualIgnoringCase ==
    \A i, j \in 1..Len(students) :
        i # j => toLowerCase(students[i].email) # toLowerCase(students[j].email)

\* two records registered with different emails, both emptied by an update
C20_WitnessBothEmpty ==
    /\ Len(students) = 2
    /\ students[1].email = <<>>
    /\ students[2].email = <<>>
    /\ lastOp.op = "updateStudent" /\ lastOp.result = "ok"

\* what does hold: the emails that are not empty differ ignoring case
NonEmptyEmailsDiffer ==
    \A i, j \in 1..Len(students) :
        (i # j /\ students[i].email # <<>>) =>
            toLowerCase(students[i].email) # toLowerCase(students[j].email)

\* and the call that reports 'Email already registered' changes no record
DuplicateIsRejected ==
    [][lastOp'.result = "Email already registered" =>
          /\ students' = students
          /\ lastOp'.op \in {"addStudent", "updateStudent"}
      ]_vars

\* an address used by another record up to letter case, refused by an update
RejectedUpdateReached ==
    /\ lastOp.op = "updateStudent"
    /\ lastOp.result = "Email already registered"
    /\ \E i \in 1..Len(students) : students[i].email = EmailAUpper

----------------------------------------------------------------------------
(* SpecIds: students added, deleted, cleared and restored, and the page     *)
(* reloaded, from an empty store.  The ids are the generated ones: the      *)
(* registration form submits no id of its own.                              *)

MaxIdOps == 6

AddStudentStep ==
    /\ \E studentData \in AddInputs : addStudent(studentData)
    /\ Step(MaxIdOps)

DeleteStudentStep ==
    /\ \E id \in KnownIds \cup {UnknownId} : deleteStudent(id)
    /\ Step(MaxIdOps)

ClearAllDataStep ==
    /\ clearAllData
    /\ Step(MaxIdOps)

RestoreUndoBackupStep ==
    /\ restoreUndoBackup
    /\ Step(MaxIdOps)

ReloadStep ==
    /\ constructor
    /\ Step(MaxIdOps)

NextIds ==
    \/ AddStudentStep
    \/ DeleteStudentStep
    \/ ClearAllDataStep
    \/ RestoreUndoBackupStep
    \/ ReloadStep

SpecIds == InitEdit /\ [][NextIds]_vars

\* the number that ends a generated id
IdNumber(id) == parseIntDigits(id[Len(id)]).v

\* C21: no two stored students share an id, and the number the next add
\* will use is greater than the number of every id in the store
C21_GeneratedIdsAreUnique ==
    /\ \A i, j \in 1..Len(students) : i # j => students[i].id # students[j].id
    /\ \A i \in 1..Len(students) : IdNumber(students[i].id) < nextId

\* a student deleted, the page reloaded, and the number of the deleted id
\* handed out again while the backup still holds the deleted record
C21_WitnessNumberReused ==
    /\ lastOp.op = "addStudent" /\ lastOp.result = "ok"
    /\ Len(students) = 2
    /\ undo # NoBackup
    /\ \E i \in 1..Len(undo[1].students) : undo[1].students[i].id = lastOp.id

\* the list and the counter brought back by an undo after a clear
C21_WitnessRestored ==
    /\ lastOp = Op("restoreUndoBackup", NoId, "true")
    /\ Len(students) = 2
    /\ nextId = 3

----------------------------------------------------------------------------
(* The students table: search, filter, sort, paginate, render               *)

itemsPerPage == 10

\* Math.ceil(n / d) for n >= 0 and d > 0
CeilDiv(n, d) == (n + d - 1) \div d

YearChars(y) ==
    IF y = "2025" THEN <<"2", "0", "2", "5">> ELSE <<"2", "0", "2", "6">>

\* the id as the text STU-<year>-<number>
idText(id) == <<"S", "T", "U", "-">> \o YearChars(id[2]) \o <<"-">> \o id[3]

\* Utils.searchArray on one item: some of id, firstName, lastName, email
\* contains the lower-cased term
matchesSearch(item, term) ==
    \/ Includes(toLowerCase(idText(item.id)), term)
    \/ Includes(toLowerCase(item.firstName), term)
    \/ "lastName" \in DOMAIN item /\ Includes(toLowerCase(item.lastName), term)
    \/ Includes(toLowerCase(item.email), term)

searchStudents(list, searchTerm) ==
    Filter(list, {i \in 1..Len(list) : matchesSearch(list[i], toLowerCase(searchTerm))})

\* tags.some(t => String(t).toLowerCase() === filterTag)
someTagIs(tags, filterTag) == \E t \in 1..Len(tags) : toLowerCase(tags[t]) = filterTag

\* item[key] === value; a field the item lacks is undefined and equals nothing
fieldIs(item, key, value) == key \in DOMAIN item /\ item[key] = value

\* Utils.filterArray on one item; a condition that is empty is no condition
passesConditions(item, conditions) ==
    /\ conditions.department = <<>> \/ fieldIs(item, "department", conditions.department)
    /\ conditions.year = <<>> \/ fieldIs(item, "year", conditions.year)
    /\ conditions.gender = <<>> \/ fieldIs(item, "gender", conditions.gender)
    /\ \/ toLowerCase(Trim(conditions.tag)) = <<>>
       \/ /\ "tags" \in DOMAIN item
          /\ someTagIs(item.tags, toLowerCase(Trim(conditions.tag)))

filterArray(array, conditions) ==
    Filter(array, {i \in 1..Len(array) : passesConditions(array[i], conditions)})

\* the rank of a character in String.prototype.localeCompare: the space,
\* then the digits, then the letters whatever their case
LetterIndex(c) ==
    IF \E i \in 1..26 : LowerChars[i] = LowerChar(c)
    THEN CHOOSE i \in 1..26 : LowerChars[i] = LowerChar(c)
    ELSE 27

CharRank(c) ==
    IF c = " " THEN 0 ELSE IF IsDigit(c) THEN 1 + DigitVal(c) ELSE 11 + LetterIndex(c)

\* a.localeCompare(b): negative, zero or positive
RECURSIVE compareFrom(_, _, _)
compareFrom(a, b, i) ==
    IF i > Len(a) THEN (IF i > Len(b) THEN 0 ELSE 0 - 1)
    ELSE IF i > Len(b) THEN 1
    ELSE IF a[i] = b[i] THEN compareFrom(a, b, i + 1)
    ELSE IF CharRank(a[i]) < CharRank(b[i]) THEN 0 - 1
    ELSE IF CharRank(a[i]) > CharRank(b[i]) THEN 1
    ELSE compareFrom(a, b, i + 1)

localeCompare(a, b) == compareFrom(a, b, 1)

\* a field in a string concatenation: 'undefined' for a field the record lacks
fieldText(s, key) ==
    IF key \in DOMAIN s THEN s[key] ELSE <<"u", "n", "d", "e", "f", "i", "n", "e", "d">>

\* firstName + ' ' + lastName
fullNameKey(s) == s.firstName \o <<" ">> \o fieldText(s, "lastName")

\* the comparator of sortStudentsList for 'name-asc' and 'name-desc'
compareNames(a, b, sortBy) ==
    IF sortBy = "name-desc"
    THEN localeCompare(fullNameKey(b), fullNameKey(a))
    ELSE localeCompare(fullNameKey(a), fullNameKey(b))

\* Array.prototype.sort is stable: x goes behind everything that is not after it
RECURSIVE insertSorted(_, _, _)
insertSorted(sorted, x, sortBy) ==
    IF sorted = <<>> THEN <<x>>
    ELSE IF compareNames(Head(sorted), x, sortBy) > 0 THEN <<x>> \o sorted
    ELSE <<Head(sorted)>> \o insertSorted(Tail(sorted), x, sortBy)

RECURSIVE sortFirst(_, _, _)
sortFirst(list, n, sortBy) ==
    IF n = 0 THEN <<>> ELSE insertSorted(sortFirst(list, n - 1, sortBy), list[n], sortBy)

\* Utils.sortStudentsList for the two orders by name
sortStudentsList(list, sortBy) == sortFirst(list, Len(list), sortBy)

\* Array.prototype.slice(start, end), both counted from 0
Slice(list, start, end) ==
    IF start >= Len(list) THEN <<>>
    ELSE SubSeq(list, start + 1, IF end < Len(list) THEN end ELSE Len(list))

IdsOf(list) == [i \in 1..Len(list) |-> list[i].id]

\* renderPagination: the pages a button leads to
renderPagination(totalPages, currentPage) ==
    IF totalPages <= 1 THEN {}
    ELSE (IF currentPage > 1 THEN {currentPage - 1} ELSE {})
         \cup (1..totalPages)
         \cup (IF currentPage < totalPages THEN {currentPage + 1} ELSE {})

\* StudentView.renderStudentsTable: the rows of the current page and the
\* pagination buttons
renderStudentsTable(v, list) ==
    IF Len(list) = 0
    THEN [v EXCEPT !.tableRows = <<>>, !.pageButtons = {}]
    ELSE [v EXCEPT !.tableRows = IdsOf(Slice(list, (v.currentPage - 1) * itemsPerPage,
                                        (v.currentPage - 1) * itemsPerPage + itemsPerPage)),
                   !.pageButtons = renderPagination(CeilDiv(Len(list), itemsPerPage),
                                                    v.currentPage)]

\* the filters object updateStudentsTable builds from the four selects
filtersOf(v) ==
    [department |-> v.departmentFilter, year |-> v.yearFilter,
     gender |-> v.genderFilter, tag |-> v.tagFilter]

searched(list, searchTerm) ==
    IF searchTerm # <<>> THEN searchStudents(list, searchTerm) ELSE list

\* the list updateStudentsTable hands to the view: search, filter, sort
tableList(list, v) ==
    sortStudentsList(filterArray(searched(list, Trim(v.searchInput)), filtersOf(v)),
                     v.sortSelect)

\* StudentController.updateStudentsTable
updateStudentsTable(list, v) == renderStudentsTable(v, tableList(list, v))

\* handlePageChange('students'): the first page, the search box takes the
\* global search, the table is rendered
showStudentsPage(list, v) ==
    updateStudentsTable(list, [v EXCEPT !.currentPage = 1, !.searchInput = v.globalSearch])

\* StudentView.openDeleteModal / closeDeleteModal
openDeleteModal(v, studentId) ==
    [v EXCEPT !.currentDeletingId = studentId, !.deleteModalActive = TRUE]

closeDeleteModal(v) ==
    [v EXCEPT !.currentDeletingId = NoId, !.deleteModalActive = FALSE]

\* StudentView.showToast: the toast is replaced, with or without an Undo button
showToast(v, withUndo) == [v EXCEPT !.undoToast = withUndo]

----------------------------------------------------------------------------
(* ActivityModel                                                            *)

\* the dash log() writes for a missing name
NoName == <<"-">>

OrDash(s) == IF s = <<>> THEN NoName ELSE s

\* a log that puts the new entry at the end
log_Appends(list, actionType, studentName, description) ==
    list \o <<[actionType |-> actionType,
               studentName |-> OrDash(Trim(OrDash(studentName))),
               description |-> Trim(description)]>>

\* ActivityModel.log: the new entry goes to the front of the stored list
log(list, actionType, studentName, description) ==
    <<[actionType |-> actionType,
       studentName |-> OrDash(Trim(OrDash(studentName))),
       description |-> Trim(description)]>> \o list

\* ActivityModel.getAll
getAll(list) == list

\* the history of ActivityModel calls
LogCall(actionType, studentName, description) ==
    [op |-> "log", actionType |-> actionType, studentName |-> studentName,
     description |-> description]

ClearAllCall == [op |-> "clearAll", actionType |-> "", studentName |-> <<>>,
                 description |-> <<>>]

----------------------------------------------------------------------------
(* SpecTable: the students page over a store of MaxRows students; the user  *)
(* selects pages, searches, filters, sorts, deletes through the modal and   *)
(* undoes                                                                   *)

MaxRows == 11
MaxTableOps == 5

Female == <<"F", "e", "m", "a", "l", "e">>
Male == <<"M", "a", "l", "e">>
Year1 == <<"1">>
Year2 == <<"2">>

\* the k-th student of a roster with the year and gender the form asks for
withYearAndGender(s, k) ==
    [year |-> IF k % 2 = 0 THEN Year2 ELSE Year1,
     gender |-> IF k % 3 = 0 THEN Female ELSE Male] @@ s

TableRoster(n) == [k \in 1..n |-> withYearAndGender(Roster("mixed", n)[k], k)]

\* one more event of the page, within the bound max on the length of a run
StepUi(max) ==
    /\ opCount < max
    /\ opCount' = opCount + 1
    /\ UNCHANGED <<scoreVars, trendVars, queryVars, responseVars, chatVars>>

\* an event that touches the view only
ViewOnly == UNCHANGED <<students, nextId, storage, undo, lastOp, activities, timers, calls>>

InitTable ==
    /\ students = TableRoster(MaxRows)
    /\ storage = students
    /\ nextId = getNextAvailableId(students)
    /\ undo = NoBackup
    /\ lastOp = InitOp
    /\ opCount = 0
    /\ view = showStudentsPage(students, ViewInit)
    /\ activities = <<>>
    /\ timers = <<>>
    /\ calls = <<>>
    /\ ScoreIdle /\ TrendIdle /\ QueryIdle /\ ResponseIdle /\ ChatIdle

SearchTerms == {<<>>, <<"n", "1">>}
DepartmentChoices == {<<>>, <<"E", "n", "g", "i", "n", "e", "e", "r", "i", "n", "g">>}
TagChoices == {<<>>, TagPlacementReady}
SortChoices == {"name-asc", "name-desc"}

\* attachPaginationHandlers: a click on a pagination button
SelectPage ==
    /\ \E page \in view.pageButtons :
          /\ page >= 1
          /\ view' = updateStudentsTable(students, [view EXCEPT !.currentPage = page])
    /\ ViewOnly
    /\ StepUi(MaxTableOps)

\* the 'input' handler of the search box
SearchInput ==
    /\ \E term \in SearchTerms :
          view' = updateStudentsTable(students,
                      [view EXCEPT !.searchInput = term, !.globalSearch = term])
    /\ ViewOnly
    /\ StepUi(MaxTableOps)

\* the 'change' handlers of the four filters and of the sort select
ChangeDepartmentFilter ==
    /\ \E d \in DepartmentChoices :
          view' = updateStudentsTable(students, [view EXCEPT !.departmentFilter = d])
    /\ ViewOnly
    /\ StepUi(MaxTableOps)

ChangeYearFilter ==
    /\ \E y \in {<<>>, Year1} :
          view' = updateStudentsTable(students, [view EXCEPT !.yearFilter = y])
    /\ ViewOnly
    /\ StepUi(MaxTableOps)

ChangeGenderFilter ==
    /\ \E g \in {<<>>, Female} :
          view' = updateStudentsTable(students, [view EXCEPT !.genderFilter = g])
    /\ ViewOnly
    /\ StepUi(MaxTableOps)

ChangeTagFilter ==
    /\ \E t \in TagChoices :
          view' = updateStudentsTable(students, [view EXCEPT !.tagFilter = t])
    /\ ViewOnly
    /\ StepUi(MaxTableOps)

ChangeSort ==
    /\ \E sortBy \in SortChoices :
          view' = updateStudentsTable(students, [view EXCEPT !.sortSelect = sortBy])
    /\ ViewOnly
    /\ StepUi(MaxTableOps)

\* attachTableActionHandlers: a click on the delete button of a row shown
OpenDeleteModal ==
    /\ ~view.deleteModalActive
    /\ \E i \in 1..Len(view.tableRows) : view' = openDeleteModal(view, view.tableRows[i])
    /\ ViewOnly
    /\ StepUi(MaxTableOps)

\* the close button, the cancel button or a click beside the modal
CloseDeleteModal ==
    /\ view.deleteModalActive
    /\ view' = closeDeleteModal(view)
    /\ ViewOnly
    /\ StepUi(MaxTableOps)

\* model.getStudentById(id), <<>> when there is none
getStudentById(list, id) ==
    IF findIndex(list, id) = 0 THEN <<>> ELSE <<list[findIndex(list, id)]>>

\* (student.firstName + ' ' + student.lastName).trim(), the dash for no student
fullNameOf(found) == IF found = <<>> THEN NoName ELSE Trim(fullNameKey(found[1]))

DescDeleted == <<"S", "t", "u", "d", "e", "n", "t", " ", "r", "e", "m", "o", "v", "e", "d", " ", "f", "r", "o", "m", " ", "r", "e", "c", "o", "r", "d", "s", ".">>

\* handleDeleteConfirm up to its setTimeout: the name is read now, the delete
\* is left to the timer
HandleDeleteConfirm ==
    /\ view.deleteModalActive
    /\ timers' = Append(timers, [kind |-> "delete",
                                 fullName |-> fullNameOf(getStudentById(students,
                                                            view.currentDeletingId))])
    /\ UNCHANGED <<students, nextId, storage, undo, lastOp, view, activities, calls>>
    /\ StepUi(MaxTableOps)

\* the callback handleDeleteConfirm left: it deletes the student the view
\* names now and logs the name read at the click
deleteTimerFires(fullName) ==
    /\ deleteStudent(view.currentDeletingId)
    /\ IF lastOp'.result = "ok"
       THEN /\ activities' = log(activities, "student_deleted", fullName, DescDeleted)
            /\ calls' = Append(calls, LogCall("student_deleted", fullName, DescDeleted))
            /\ view' = updateStudentsTable(students',
                           showToast(closeDeleteModal(view), TRUE))
       ELSE /\ UNCHANGED <<activities, calls>>
            /\ view' = showToast(view, FALSE)


DeleteTimerFires ==
    /\ timers # <<>>
    /\ Head(timers).kind = "delete"
    /\ deleteTimerFires(Head(timers).fullName)
    /\ timers' = Tail(timers)
    /\ StepUi(MaxTableOps)

\* handleUndo, reached through the Undo button of the toast
handleUndo ==
    /\ restoreUndoBackup
    /\ IF lastOp'.result = "true"
       THEN view' = updateStudentsTable(students', showToast(view, FALSE))
       ELSE view' = [view EXCEPT !.undoToast = FALSE]

HandleUndo ==
    /\ view.undoToast
    /\ handleUndo
    /\ UNCHANGED <<activities, timers, calls>>
    /\ StepUi(MaxTableOps)

\* the toast goes after its 8 seconds
ToastExpires ==
    /\ view.undoToast
    /\ view' = [view EXCEPT !.undoToast = FALSE]
    /\ ViewOnly
    /\ StepUi(MaxTableOps)

NextTable ==
    \/ SelectPage
    \/ SearchInput
    \/ ChangeDepartmentFilter
    \/ ChangeYearFilter
    \/ ChangeGenderFilter
    \/ ChangeTagFilter
    \/ ChangeSort
    \/ OpenDeleteModal
    \/ CloseDeleteModal
    \/ HandleDeleteConfirm
    \/ DeleteTimerFires
    \/ HandleUndo
    \/ ToastExpires

SpecTable == InitTable /\ [][NextTable]_vars

\* the page p of a list of n > 0 students exists and rows holds its students
pageIsShown(list, p, rows) ==
    /\ 1 <= p
    /\ p <= CeilDiv(Len(list), itemsPerPage)
    /\ rows = IdsOf(Slice(list, (p - 1) * itemsPerPage, p * itemsPerPage))
    /\ Len(rows) >= 1
    /\ Len(rows) <= itemsPerPage

\* C22: whenever the filtered list has n > 0 students, the current page p
\* satisfies 1 <= p <= ceil(n / 10) and the table shows the students at the
\* positions (p - 1) * 10 + 1 .. min(p * 10, n) of it, 1 to 10 rows
C22_CurrentPageExists ==
    Len(tableList(students, view)) > 0 =>
        pageIsShown(tableList(students, view), view.currentPage, view.tableRows)

\* a delete on the last page took its only row: students remain, none is shown
C22_WitnessPagePastEnd ==
    /\ lastOp = Op("deleteStudent", generateStudentID(MaxRows), "ok")
    /\ Len(tableList(students, view)) = MaxRows - 1
    /\ view.currentPage = 2
    /\ view.tableRows = <<>>

\* what holds: the table shows the slice of the current page, at most 10 rows
RowsAreThePageSlice ==
    /\ view.currentPage >= 1
    /\ view.tableRows = IdsOf(Slice(tableList(students, view),
                                    (view.currentPage - 1) * itemsPerPage,
                                    view.currentPage * itemsPerPage))
    /\ Len(view.tableRows) <= itemsPerPage

----------------------------------------------------------------------------
(* Undo *)

Destructive == {"deleteStudent", "clearAllData"}

\* a step in which deleteStudent or clearAllData succeeds leaves the list and
\* the counter it found in the backup
BackupHoldsStateBefore ==
    (/\ opCount' = opCount + 1
     /\ lastOp'.op \in Destructive
     /\ lastOp'.result = "ok") =>
        /\ undo' # NoBackup
        /\ undo'[1].students = students
        /\ undo'[1].nextId = nextId

\* restoreUndoBackup as the step right after such a step returns true and
\* leaves the list and the counter of the backup
RestoreReturnsBackup ==
    (/\ opCount' = opCount + 1
     /\ lastOp.op \in Destructive
     /\ lastOp.result = "ok"
     /\ lastOp'.op = "restoreUndoBackup") =>
        /\ lastOp'.result = "true"
        /\ students' = undo[1].students
        /\ nextId' = undo[1].nextId

\* C23: deleteStudent(id) or clearAllData immediately followed by
\* restoreUndoBackup returns true and leaves the student list (the same
\* records in the same order, performanceHistory included) and nextId as they
\* were before the delete or clear: the first step stores the state it finds,
\* the second step puts the stored state back
C23_UndoRoundTrip == [][BackupHoldsStateBefore /\ RestoreReturnsBackup]_vars

\* a run of exactly a delete and its undo over a store of two students
C23_WitnessDeleteUndone ==
    /\ opCount = 2
    /\ lastOp = Op("restoreUndoBackup", NoId, "true")
    /\ Len(students) = 2
    /\ undo = NoBackup

\* an edit, a clear and its undo: the edited record is back with its history
C23_WitnessClearUndone ==
    /\ opCount = 3
    /\ lastOp = Op("restoreUndoBackup", NoId, "true")
    /\ Len(students) = 2
    /\ \E i \in 1..Len(students) : Len(students[i].performanceHistory) > 1

----------------------------------------------------------------------------
(* SpecActivity: ActivityModel over an empty store; log and clearAll are    *)
(* called up to MaxLogCalls times                                           *)

MaxLogCalls == 4

ActionTypes == {"student_added", "student_deleted", "data_cleared"}
LoggedNames == {<<"A", "n", "n">>, <<" ", "B", "o">>, <<>>}
LoggedDescriptions == {<<"o", "k", " ">>}

InitActivity ==
    /\ activities = <<>>
    /\ calls = <<>>
    /\ view = ViewInit
    /\ timers = <<>>
    /\ StoreIdle /\ ScoreIdle /\ TrendIdle /\ QueryIdle /\ ResponseIdle /\ ChatIdle

ActivityOnly ==
    /\ Len(calls) < MaxLogCalls
    /\ UNCHANGED <<view, timers>>
    /\ UNCHANGED <<storeVars, scoreVars, trendVars, queryVars, responseVars, chatVars>>

Log ==
    /\ \E actionType \in ActionTypes, studentName \in LoggedNames,
          description \in LoggedDescriptions :
          /\ activities' = log(activities, actionType, studentName, description)
          /\ calls' = Append(calls, LogCall(actionType, studentName, description))
    /\ ActivityOnly

\* ActivityModel.clearAll
ClearAll ==
    /\ activities' = <<>>
    /\ calls' = Append(calls, ClearAllCall)
    /\ ActivityOnly

NextActivity ==
    \/ Log
    \/ ClearAll

SpecActivity == InitActivity /\ [][NextActivity]_vars

\* the place of the last clearAll among the calls, 0 when there is none
LastClearAll(cs) ==
    IF \E k \in 1..Len(cs) : cs[k].op = "clearAll"
    THEN CHOOSE k \in 1..Len(cs) :
            cs[k].op = "clearAll" /\ \A j \in (k + 1)..Len(cs) : cs[j].op # "clearAll"
    ELSE 0

\* the entry a log call writes
EntryOf(call) == log(<<>>, call.actionType, call.studentName, call.description)[1]

\* list holds one entry per call of cs after place from, the last call first
IsReverseOf(list, cs, from) ==
    /\ Len(list) = Len(cs) - from
    /\ \A k \in 1..Len(list) : list[k] = EntryOf(cs[Len(cs) + 1 - k])

\* C24: getAll returns exactly one entry per log call made since the last
\* clearAll (or since the empty store), the most recent call first; right
\* after a clearAll it returns the empty list
C24_MostRecentFirst == IsReverseOf(getAll(activities), calls, LastClearAll(calls))

\* three log calls of different types after a clearAll
C24_WitnessThreeAfterClear ==
    /\ Len(calls) = 4
    /\ calls[1].op = "clearAll"
    /\ calls[2].actionType = "student_added"
    /\ calls[3].actionType = "student_deleted"
    /\ calls[4].actionType = "data_cleared"
    /\ Len(getAll(activities)) = 3
    /\ getAll(activities)[1].actionType = "data_cleared"

\* a clearAll after two log calls
C24_WitnessCleared ==
    /\ Len(calls) = 3
    /\ calls[3].op = "clearAll"
    /\ calls[1].op = "log"
    /\ activities = <<>>

----------------------------------------------------------------------------
(* The persisted list *)

SavingOps == {"addStudent", "updateStudent", "deleteStudent", "clearAllData",
              "restoreUndoBackup", "importFromJSON"}

Completed == lastOp.op \in SavingOps /\ lastOp.result \in {"ok", "true"}

C25_WitnessAfterLongStore ==
    /\ lastOp = Op("updateStudent", LongStudent.id, "ok")
    /\ opCount = 1
    /\ Len(students) = 1

\* right after construction the store may hold a longer history than the list
\* in memory: no operation has completed yet
StoredDiffersAfterLoad ==
    /\ lastOp = InitOp
    /\ opCount = 0
    /\ storage # students
    /\ migratePerformanceHistory(storage) = students

----------------------------------------------------------------------------
(* Rejected operations *)

\* the step throws msg and leaves the list, the counter, the persisted list
\* and the undo backup as they were
ThrowsAndKeeps(msg) ==
    /\ lastOp'.result = msg
    /\ UNCHANGED <<students, nextId, storage, undo>>

\* another student than id carries this (non-empty) email, whatever the case
IsEmailOfAnother(email, id) ==
    /\ email # <<>>
    /\ \E i \in 1..Len(students) :
          /\ students[i].id # id
          /\ students[i].email # <<>>
          /\ toLowerCase(students[i].email) = toLowerCase(email)

RejectedAdd(data) ==
    /\ ~validateStudent(data) => ThrowsAndKeeps("Invalid student data")
    /\ (validateStudent(data) /\ IsEmailOfAnother(data.email, NoId)) =>
          ThrowsAndKeeps("Email already registered")

RejectedUpdate(id, updates) ==
    /\ findIndex(students, id) = 0 => ThrowsAndKeeps("Student not found")
    /\ (/\ findIndex(students, id) # 0
        /\ "email" \in DOMAIN updates
        /\ IsEmailOfAnother(updates.email, id)) =>
          ThrowsAndKeeps("Email already registered")

RejectedDelete(id) ==
    findIndex(students, id) = 0 => ThrowsAndKeeps("Student not found")

\* C26: addStudent with invalid data or a duplicate email, updateStudent with
\* an unknown id or the email of another student, and deleteStudent with an
\* unknown id throw 'Invalid student data', 'Email already registered' and
\* 'Student not found', and leave the list, nextId, the persisted list and
\* the undo backup as they were
C26_RejectedChangesNothing ==
    [][/\ \A data \in AddInputs : addStudent(data) => RejectedAdd(data)
       /\ \A id \in KnownIds \cup {UnknownId}, updates \in EmailUpdateInputs :
             updateStudent(id, updates) => RejectedUpdate(id, updates)
       /\ \A id \in KnownIds \cup {UnknownId} :
             deleteStudent(id) => RejectedDelete(id)]_vars

\* a delete of an unknown id has been rejected while a backup is kept
C26_WitnessDeleteRejected ==
    /\ lastOp = Op("deleteStudent", UnknownId, "Student not found")
    /\ undo # NoBackup
    /\ students # <<>>

\* an edit to the email of another student has been rejected
C26_WitnessUpdateRejected ==
    /\ lastOp.op = "updateStudent"
    /\ lastOp.result = "Email already registered"
    /\ Len(students) = 2

\* an add of invalid data and an add of a registered email have been rejected
C26_WitnessAddInvalid ==
    /\ lastOp = Op("addStudent", NoId, "Invalid student data")
    /\ students # <<>>

C26_WitnessAddDuplicate ==
    /\ lastOp = Op("addStudent", NoId, "Email already registered")
    /\ undo # NoBackup

----------------------------------------------------------------------------
(* The delete timer *)

\* the step is the delete callback and it removes something
DeleteTimerRemoves ==
    /\ timers # <<>>
    /\ Head(timers).kind = "delete"
    /\ timers' = Tail(timers)
    /\ students' # students

\* exactly the student at place i is removed and the newest activity entry is
\* a 'student_deleted' entry with that student's name
RemovedIsLogged(i) ==
    /\ students' = RemoveAt(students, i)
    /\ activities' # <<>>
    /\ activities'[1].actionType = "student_deleted"
    /\ activities'[1].studentName = Trim(fullNameKey(students[i]))

\* C27: for every interleaving of opening and closing the delete modal with
\* the 400 ms delete timer, the student removed when the timer fires is the
\* one whose name is written to the 'student_deleted' activity entry, and no
\* other student is removed
C27_RemovedStudentIsTheLoggedOne ==
    [][DeleteTimerRemoves => \E i \in 1..Len(students) : RemovedIsLogged(i)]_vars

\* the modal was closed and opened on another row while the timer was
\* pending: the entry names one student, another one is gone
C27_WitnessOtherRemoved ==
    /\ lastOp.op = "deleteStudent"
    /\ lastOp.result = "ok"
    /\ activities # <<>>
    /\ activities[1].actionType = "student_deleted"
    /\ \E i \in 1..Len(students) :
          activities[1].studentName = Trim(fullNameKey(students[i]))

\* the timer ran with the modal as it was at the click: the entry names the
\* student that is gone
C27_WitnessSameRemoved ==
    /\ lastOp.op = "deleteStudent"
    /\ lastOp.result = "ok"
    /\ opCount = 3
    /\ activities # <<>>
    /\ \A i \in 1..Len(students) :
          activities[1].studentName # Trim(fullNameKey(students[i]))

\* the modal was closed while the timer was pending: nothing is removed and
\* nothing is logged
C27_WitnessCancelled ==
    /\ lastOp = Op("deleteStudent", NoId, "Student not found")
    /\ activities = <<>>
    /\ timers = <<>>

----------------------------------------------------------------------------
(* SpecSubmit: the registration form over an empty store; the form is       *)
(* submitted and the 600 ms timers of the submissions fire, oldest first    *)

MaxSubmitOps == 5

\* StudentView.setSubmitLoading
setSubmitLoading(v, loading) == [v EXCEPT !.submitDisabled = loading]

\* StudentModel.duplicateByNameAndDob: false unless first name, last name and
\* date of birth are all given
duplicateByNameAndDob(list, data) ==
    /\ "lastName" \in DOMAIN data /\ "dob" \in DOMAIN data
    /\ Trim(data.firstName) # <<>> /\ Trim(data.lastName) # <<>> /\ Trim(data.dob) # <<>>
    /\ \E i \in 1..Len(list) :
          /\ "lastName" \in DOMAIN list[i] /\ "dob" \in DOMAIN list[i]
          /\ toLowerCase(list[i].firstName) = toLowerCase(Trim(data.firstName))
          /\ toLowerCase(list[i].lastName) = toLowerCase(Trim(data.lastName))
          /\ Trim(list[i].dob) = Trim(data.dob)

SubmitCall(formData) == [op |-> "submit", formData |-> formData]

DescRegistered == <<"R", "e", "g", "i", "s", "t", "e", "r", "e", "d", " ", "n", "e", "w", " ", "s", "t", "u", "d", "e", "n", "t", ".">>

\* handleFormSubmit up to its setTimeout: the checks are made now, the add is
\* left to the timer
handleFormSubmit(formData) ==
    /\ IF ~validateStudent(formData)
       THEN view' = showToast(view, FALSE) /\ UNCHANGED timers
       ELSE IF emailExists(students, formData.email, NoId)
       THEN UNCHANGED <<view, timers>>
       ELSE IF duplicateByNameAndDob(students, formData)
       THEN view' = showToast(view, FALSE) /\ UNCHANGED timers
       ELSE /\ view' = setSubmitLoading(view, TRUE)
            /\ timers' = Append(timers, [kind |-> "submit", formData |-> formData])
    /\ calls' = Append(calls, SubmitCall(formData))
    /\ UNCHANGED <<students, nextId, storage, undo, lastOp, activities>>

\* the callback handleFormSubmit left
submitTimerFires(formData) ==
    /\ addStudent(formData)
    /\ IF lastOp'.result = "ok"
       THEN /\ activities' = log(activities, "student_added",
                                 Trim(fullNameKey(students'[Len(students')])),
                                 DescRegistered)
            /\ calls' = Append(calls,
                           LogCall("student_added",
                                   Trim(fullNameKey(students'[Len(students')])),
                                   DescRegistered))
            /\ view' = updateStudentsTable(students',
                           showStudentsPage(students',
                               showToast(setSubmitLoading(view, FALSE), FALSE)))
       ELSE /\ UNCHANGED <<activities, calls>>
            /\ view' = showToast(setSubmitLoading(view, FALSE), FALSE)

InitSubmit ==
    /\ StoreIdle
    /\ view = ViewInit
    /\ activities = <<>>
    /\ timers = <<>>
    /\ calls = <<>>
    /\ ScoreIdle /\ TrendIdle /\ QueryIdle /\ ResponseIdle /\ ChatIdle

\* the 'submit' event of the form, whatever the form holds
HandleFormSubmit ==
    /\ \E formData \in AddInputs : handleFormSubmit(formData)
    /\ StepUi(MaxSubmitOps)

SubmitTimerFires ==
    /\ timers # <<>>
    /\ Head(timers).kind = "submit"
    /\ submitTimerFires(Head(timers).formData)
    /\ timers' = Tail(timers)
    /\ StepUi(MaxSubmitOps)

NextSubmit ==
    \/ HandleFormSubmit
    \/ SubmitTimerFires

SpecSubmit == InitSubmit /\ [][NextSubmit]_vars

\* the emails of the valid data submitted so far, in lower case
SubmittedEmails ==
    {toLowerCase(calls[k].formData.email) :
        k \in {j \in 1..Len(calls) :
                 calls[j].op = "submit" /\ validateStudent(calls[j].formData)}}

StudentsWithEmail(e) == {i \in 1..Len(students) : toLowerCase(students[i].email) = e}

AddedEntries == {k \in 1..Len(activities) : activities[k].actionType = "student_added"}

\* C28: however often a form with the same data is submitted before its
\* first 600 ms timer fires, once the timers have fired exactly one student
\* is registered for it and exactly one 'student_added' entry is written: the
\* store holds one student per email submitted and the log one entry per
\* student
C28_OneStudentPerSubmittedData ==
    timers = <<>> =>
        /\ \A e \in SubmittedEmails : Cardinality(StudentsWithEmail(e)) = 1
        /\ Len(students) = Cardinality(SubmittedEmails)
        /\ Cardinality(AddedEntries) = Len(students)

\* the same data submitted twice, then both timers fired: the second one
\* was rejected
C28_WitnessSubmittedTwice ==
    /\ opCount = 4
    /\ timers = <<>>
    /\ Len(calls) = 3
    /\ calls[1].op = "submit"
    /\ calls[2] = calls[1]
    /\ calls[3].op = "log"
    /\ lastOp = Op("addStudent", NoId, "Email already registered")
    /\ Len(students) = 1

----------------------------------------------------------------------------
(* What an undo takes back *)

IsIn(list, s) == \E j \in 1..Len(list) : list[j] = s

\* the step is a restoreUndoBackup that returns true
RestoreSucceeds ==
    /\ opCount' = opCount + 1
    /\ lastOp' = Op("restoreUndoBackup", NoId, "true")

\* C29 as stated: undo reverts only the delete or clear it was offered for:
\* the students added or edited between a deleteStudent or clearAllData and
\* the following restoreUndoBackup are still in the list after the restore,
\* as they were before it, alongside the restored records
C29_Original ==
    [][RestoreSucceeds =>
          /\ \A i \in 1..Len(students) : IsIn(students', students[i])
          /\ \A k \in 1..Len(undo[1].students) :
                \E j \in 1..Len(students') : students'[j].id = undo[1].students[k].id]_vars

\* a student has been added after a delete while the undo is still on offer
C29_WitnessAddedBeforeUndo ==
    /\ undo # NoBackup
    /\ undo[1].action = "delete"
    /\ lastOp.op = "addStudent"
    /\ lastOp.result = "ok"
    /\ \A k \in 1..Len(undo[1].students) : undo[1].students[k].id # lastOp.id

\* a student has been edited after a delete while the undo is still on offer
C29_WitnessEditedBeforeUndo ==
    /\ undo # NoBackup
    /\ lastOp.op = "updateStudent"
    /\ lastOp.result = "ok"
    /\ \E i \in 1..Len(students) :
          /\ students[i].id = lastOp.id
          /\ ~IsIn(undo[1].students, students[i])

\* C29 (amended): a restoreUndoBackup that returns true puts back the
\* snapshot taken by the last successful deleteStudent or clearAllData: the
\* list, the persisted list and nextId are those of the snapshot, and what was
\* added or edited since is not kept
C29_UndoRestoresSnapshot ==
    [][RestoreSucceeds =>
          /\ students' = undo[1].students
          /\ storage' = undo[1].students
          /\ nextId' = undo[1].nextId
          /\ undo' = NoBackup]_vars

----------------------------------------------------------------------------
(* SpecDashboard: the assistant beside the students table; messages are     *)
(* sent, their responses are shown and their actions applied to the page,   *)
(* and the user sets filters of the table in between                        *)

TagNeedsAttention == <<"N", "e", "e", "d", "s", " ", "A", "t", "t", "e", "n", "t", "i", "o", "n">>

\* AssistantController.applyDashboardAction on the view
applyDashboardAction(list, v, action) ==
    CASE action.type = "filter_department" ->
            IF action.payload # <<>>
            THEN updateStudentsTable(list,
                    showStudentsPage(list,
                        [v EXCEPT !.departmentFilter = action.payload,
                                  !.globalSearch = <<>>, !.searchInput = <<>>]))
            ELSE v
      [] action.type = "filter_at_risk" ->
            updateStudentsTable(list,
                showStudentsPage(list,
                    [v EXCEPT !.tagFilter = TagNeedsAttention,
                              !.departmentFilter = <<>>,
                              !.searchInput = <<>>, !.globalSearch = <<>>]))
      [] action.type = "filter_tag" ->
            IF action.payload # <<>>
            THEN updateStudentsTable(list,
                    showStudentsPage(list,
                        [v EXCEPT !.tagFilter = action.payload,
                                  !.departmentFilter = <<>>]))
            ELSE v
      [] OTHER -> v

\* the view after the callback of handleSend has run for result
viewAfter(list, v, result) ==
    IF result.action = NoAction THEN v
    ELSE applyDashboardAction(list, v, result.action[1])

DashboardTexts ==
    {<<"/", "r", "i", "s", "k">>,
     <<"s", "h", "o", "w", " ", "e", "n", "g", "i", "n", "e", "e", "r", "i", "n", "g", " ", "s", "t", "u", "d", "e", "n", "t", "s">>,
     <<"s", "h", "o", "w", " ", "s", "c", "i", "e", "n", "c", "e", " ", "s", "t", "u", "d", "e", "n", "t", "s">>}

InitDashboard ==
    /\ students = TableRoster(MaxRows)
    /\ storage = students
    /\ nextId = getNextAvailableId(students)
    /\ undo = NoBackup
    /\ lastOp = InitOp
    /\ opCount = 0
    /\ view = showStudentsPage(students, ViewInit)
    /\ activities = <<>>
    /\ timers = <<>>
    /\ calls = <<>>
    /\ inputEl = <<>>
    /\ typingTimeout = <<>>
    /\ messages = <<Bubble("assistant", WelcomeMessage(students))>>
    /\ chatHistory = <<>>
    /\ applied = <<>>
    /\ sent = <<>>
    /\ ScoreIdle /\ TrendIdle /\ QueryIdle /\ ResponseIdle

\* one more event of the page, the chat included
StepDashboard ==
    /\ opCount < MaxTableOps
    /\ opCount' = opCount + 1
    /\ UNCHANGED <<students, nextId, storage, undo, lastOp, activities, timers, calls>>
    /\ UNCHANGED <<scoreVars, trendVars, queryVars, responseVars>>

\* a message is typed and sent
SendToAssistant ==
    /\ \E text \in DashboardTexts : handleSendOf(text)
    /\ UNCHANGED view
    /\ StepDashboard

\* the typing delay is over: the response is shown and its action applied
ResponseShown ==
    /\ typingTimeoutFires
    /\ view' = viewAfter(students, view, typingTimeout[1])
    /\ StepDashboard

NextDashboard ==
    \/ SendToAssistant
    \/ ResponseShown
    \/ ChangeTagFilter
    \/ ChangeYearFilter
    \/ SearchInput

SpecDashboard == InitDashboard /\ [][NextDashboard]_vars

\* the step applies the filter_department action of a department response
DepartmentActionApplied ==
    /\ typingTimeout # <<>>
    /\ typingTimeout' = <<>>
    /\ typingTimeout[1].action # NoAction
    /\ typingTimeout[1].action[1].type = "filter_department"

IdSet(list) == {list[i].id : i \in 1..Len(list)}

\* the table, all its pages taken together, lists exactly the students the
\* response counted: those of getStudentsByDepartment, n of them
ListsTheDepartment(listed, dept, n) ==
    /\ IdSet(listed) = IdSet(getStudentsByDepartment(students, dept))
    /\ Len(listed) = n

C30_WitnessScience ==
    /\ typingTimeout = <<>>
    /\ opCount = 2
    /\ Len(applied) = 1
    /\ applied[1] = Action("filter_department", <<"S", "c", "i", "e", "n", "c", "e">>)[1]
    /\ Len(getStudentsByDepartment(students, applied[1].payload)) = 3
    /\ view.tableRows = <<>>

\* no filter set before, Engineering: the table lists the four students counted
C30_WitnessEngineering ==
    /\ typingTimeout = <<>>
    /\ opCount = 2
    /\ Len(applied) = 1
    /\ applied[1] = Action("filter_department", DefaultDepartment)[1]
    /\ Len(view.tableRows) = 4
    /\ IdSet(getStudentsByDepartment(students, DefaultDepartment))
          = {view.tableRows[i] : i \in 1..Len(view.tableRows)}

====
